---- MODULE Spec2Model ----
(***************************************************************************)
(* TravelEase contact-form Lambda (travel_backend/lambda/app.py).          *)
(*                                                                         *)
(* One invocation of lambda_handler decodes the API Gateway event, checks  *)
(* the five required fields, builds the form_data record and hands it, in  *)
(* a fixed order, to SQS, DynamoDB, SES (customer, owner, business) and    *)
(* SNS.  The first exception ends the invocation: BadRequestError becomes  *)
(* a 400 response, anything else a 500 response.                           *)
(*                                                                         *)
(* Python values are modelled as follows.                                  *)
(*   str    a TLA+ string of printable ASCII characters                    *)
(*   bytes  a sequence of numbers 0..255                                   *)
(*   JSON   a tagged tuple, see the section "JSON values"                  *)
(* A library call either returns or raises: Ok(v) and Raise(type, msg).    *)
(* A text, byte sequence or JSON document that lies outside the modelled   *)
(* value domain yields Unmodelled; Init admits no event that produces it.  *)
(***************************************************************************)
EXTENDS Integers, Sequences, FiniteSets, TLC

(***************************************************************************)
(* Results of calls                                                        *)
(***************************************************************************)
Ok(v) == [st |-> "ok", val |-> v]

Raise(type, msg) == [st |-> "raise", exc |-> [type |-> type, msg |-> msg]]

Unmodelled == [st |-> "unmodelled"]

(***************************************************************************)
(* Characters and numbers as text                                          *)
(***************************************************************************)
\* s[i-1:j] of Python: the characters at positions i..j that exist.
Slice(s, i, j) ==
    IF i > Len(s) \/ j < i THEN ""
    ELSE SubSeq(s, i, IF j > Len(s) THEN Len(s) ELSE j)

\* The character at position i (from 1), "" beyond the end.
CharAt(s, i) == Slice(s, i, i)

Contains(s, c) == \E i \in 1..Len(s) : CharAt(s, i) = c

\* Position of the one-character string c in the alphabet s (a text without
\* repeated characters), 0 when it does not occur.
IndexOf(s, c) ==
    IF Contains(s, c) THEN CHOOSE i \in 1..Len(s) : CharAt(s, i) = c ELSE 0

Digits == "0123456789"

HexDigits == "0123456789abcdef"

\* Code points 32..95 and 97..126 in order (96, the grave accent, is left out).
AsciiLow == " !\"#$%&'()*+,-./0123456789:;<=>?@ABCDEFGHIJKLMNOPQRSTUVWXYZ[\\]^_"

AsciiHigh == "abcdefghijklmnopqrstuvwxyz{|}~"

IsDigit(c) == IndexOf(Digits, c) # 0

\* str(n) for a natural number n.
RECURSIVE IntToStr(_)
IntToStr(n) ==
    IF n < 10 THEN CharAt(Digits, n + 1)
    ELSE IntToStr(n \div 10) \o CharAt(Digits, (n % 10) + 1)

\* "%02x" % b for a byte b.
Hex2(b) == CharAt(HexDigits, (b \div 16) + 1) \o CharAt(HexDigits, (b % 16) + 1)

\* chr(b) for a byte below 128, within the modelled characters.
ChrModelled(b) ==
    b = 9 \/ b = 10 \/ b = 13 \/ (b >= 32 /\ b <= 95) \/ (b >= 97 /\ b <= 126)

Chr(b) ==
    CASE b = 9 -> "\t"
      [] b = 10 -> "\n"
      [] b = 13 -> "\r"
      [] b >= 32 /\ b <= 95 -> CharAt(AsciiLow, b - 31)
      [] OTHER -> CharAt(AsciiHigh, b - 96)

(***************************************************************************)
(* base64.b64decode(s) for a str s: binascii.a2b_base64, non-strict mode.  *)
(* Characters outside the alphabet are skipped; '=' ends the input once    *)
(* the current quad is complete; a quad left open at the end is an error.  *)
(***************************************************************************)
B64Alphabet == "ABCDEFGHIJKLMNOPQRSTUVWXYZabcdefghijklmnopqrstuvwxyz0123456789+/"

\* One character of the input; state is the decoder's quad_pos, leftchar,
\* pads and output, and done once a pad sequence has ended the input.
A2bStep(state, c) ==
    LET quad_pos == state.quad_pos
        leftchar == state.leftchar
        byte(b) == Append(state.out, b)
        next(q, l, out) ==
            [quad_pos |-> q, leftchar |-> l, pads |-> 0, out |-> out, done |-> FALSE]
        data(v) ==
            IF v < 0 THEN state
            ELSE CASE quad_pos = 0 -> next(1, v, state.out)
                   [] quad_pos = 1 -> next(2, v % 16, byte(leftchar * 4 + (v \div 16)))
                   [] quad_pos = 2 -> next(3, v % 4, byte(leftchar * 16 + (v \div 4)))
                   [] OTHER -> next(0, 0, byte(leftchar * 64 + v))
    IN  IF state.done THEN state
        ELSE IF c = "="
        THEN IF quad_pos >= 2 /\ quad_pos + state.pads + 1 >= 4
             THEN [state EXCEPT !.done = TRUE]
             ELSE IF quad_pos >= 2 THEN [state EXCEPT !.pads = @ + 1] ELSE state
        ELSE data(IndexOf(B64Alphabet, c) - 1)

\* The decoder run over the characters lo..hi of s, one half after the other.
RECURSIVE A2bBase64(_, _, _, _)
A2bBase64(s, state, lo, hi) ==
    IF lo > hi \/ state.done THEN state
    ELSE IF lo = hi THEN A2bStep(state, CharAt(s, lo))
    ELSE A2bBase64(s, A2bBase64(s, state, lo, (lo + hi) \div 2),
                   ((lo + hi) \div 2) + 1, hi)

b64decode(s) ==
    LET start == [quad_pos |-> 0, leftchar |-> 0, pads |-> 0, out |-> <<>>,
                  done |-> FALSE]
        finish(end) ==
            IF end.done \/ end.quad_pos = 0 THEN Ok(end.out)
            ELSE IF end.quad_pos = 1
            THEN Raise("binascii.Error",
                       "Invalid base64-encoded string: number of data characters ("
                       \o IntToStr((Len(end.out) \div 3) * 4 + 1)
                       \o ") cannot be 1 more than a multiple of 4")
            ELSE Raise("binascii.Error", "Incorrect padding")
    IN  finish(A2bBase64(s, start, 1, Len(s)))

(***************************************************************************)
(* bytes.decode("utf-8").  Bytes below 128 are characters; a well-formed   *)
(* multi-byte sequence denotes a character outside the modelled texts; an  *)
(* ill-formed one raises UnicodeDecodeError with CPython's message.        *)
(***************************************************************************)
IsContinuation(b) == b >= 128 /\ b <= 191

\* The error for the bytes at 0-based positions first..last.
UnicodeDecodeError(bytes, first, last, reason) ==
    Raise("UnicodeDecodeError",
          IF first = last
          THEN "'utf-8' codec can't decode byte 0x" \o Hex2(bytes[first + 1])
               \o " in position " \o IntToStr(first) \o ": " \o reason
          ELSE "'utf-8' codec can't decode bytes in position " \o IntToStr(first)
               \o "-" \o IntToStr(last) \o ": " \o reason)

\* The byte at position i (from 1), decoded after the text read so far.  An
\* ill-formed sequence is a fault at the 0-based positions first..last.
Utf8Step(bytes, sofar, i) ==
    LET ch   == bytes[i]
        n    == Len(bytes) - i + 1
        at   == i - 1
        ch2  == bytes[i + 1]
        ch3  == bytes[i + 2]
        ch4  == bytes[i + 3]
        fault(last, reason) ==
            [st |-> "fault", first |-> at, last |-> last, reason |-> reason]
        end  == fault(Len(bytes) - 1, "unexpected end of data")
        cont(k) == fault(at + k - 1, "invalid continuation byte")
        start == fault(at, "invalid start byte")
    IN  IF sofar.st # "ok" THEN sofar
        ELSE IF ch < 128
        THEN IF ChrModelled(ch) THEN Ok(sofar.val \o Chr(ch)) ELSE Unmodelled
        ELSE IF ch < 194 THEN start
        ELSE IF ch < 224
        THEN IF n < 2 THEN end
             ELSE IF ~IsContinuation(ch2) THEN cont(1)
             ELSE Unmodelled
        ELSE IF ch < 240
        THEN IF n < 2 THEN end
             ELSE IF \/ ~IsContinuation(ch2)
                     \/ (ch = 224 /\ ch2 < 160)
                     \/ (ch = 237 /\ ch2 >= 160) THEN cont(1)
             ELSE IF n < 3 THEN end
             ELSE IF ~IsContinuation(ch3) THEN cont(2)
             ELSE Unmodelled
        ELSE IF ch < 245
        THEN IF n < 2 THEN end
             ELSE IF \/ ~IsContinuation(ch2)
                     \/ (ch = 240 /\ ch2 < 144)
                     \/ (ch = 244 /\ ch2 >= 144) THEN cont(1)
             ELSE IF n < 3 THEN end
             ELSE IF ~IsContinuation(ch3) THEN cont(2)
             ELSE IF n < 4 THEN end
             ELSE IF ~IsContinuation(ch4) THEN cont(3)
             ELSE Unmodelled
        ELSE start

\* The decoder run over the bytes lo..hi, one half after the other.
RECURSIVE Utf8Decode(_, _, _, _)
Utf8Decode(bytes, sofar, lo, hi) ==
    IF lo > hi \/ sofar.st # "ok" THEN sofar
    ELSE IF lo = hi THEN Utf8Step(bytes, sofar, lo)
    ELSE Utf8Decode(bytes, Utf8Decode(bytes, sofar, lo, (lo + hi) \div 2),
                    ((lo + hi) \div 2) + 1, hi)

decode_utf8(bytes) ==
    LET finish(end) ==
            IF end.st = "fault"
            THEN UnicodeDecodeError(bytes, end.first, end.last, end.reason)
            ELSE end
    IN  finish(Utf8Decode(bytes, Ok(""), 1, Len(bytes)))

(***************************************************************************)
(* JSON values.  A value carries the name of its Python type:              *)
(*   <<"str", text>>, <<"int", n>>, <<"bool", b>>, <<"NoneType">>,         *)
(*   <<"list", values>>, <<"dict", pairs>> with pairs a sequence of        *)
(*   <<key, value>> in insertion order, keys distinct.                     *)
(***************************************************************************)
JStr(s) == <<"str", s>>

JInt(n) == <<"int", n>>

JBool(b) == <<"bool", b>>

JNull == <<"NoneType">>

JList(items) == <<"list", items>>

JDict(pairs) == <<"dict", pairs>>

TypeOf(value) == value[1]

ValueOf(value) == value[2]

\* bool(value): empty text, zero, False, None and empty containers are falsy.
Truthy(value) ==
    CASE TypeOf(value) = "str" -> ValueOf(value) # ""
      [] TypeOf(value) = "int" -> ValueOf(value) # 0
      [] TypeOf(value) = "bool" -> ValueOf(value)
      [] TypeOf(value) = "NoneType" -> FALSE
      [] TypeOf(value) = "list" -> ValueOf(value) # <<>>
      [] TypeOf(value) = "dict" -> ValueOf(value) # <<>>

HasKey(pairs, key) == \E i \in 1..Len(pairs) : pairs[i][1] = key

\* dict.get(key): the value stored under key, None when there is none.
DictGet(pairs, key) ==
    IF HasKey(pairs, key)
    THEN pairs[CHOOSE i \in 1..Len(pairs) : pairs[i][1] = key][2]
    ELSE JNull

\* d[key] = value: an existing key keeps its place.
DictSet(pairs, key, value) ==
    IF HasKey(pairs, key)
    THEN [i \in 1..Len(pairs) |->
             IF pairs[i][1] = key THEN <<key, value>> ELSE pairs[i]]
    ELSE Append(pairs, <<key, value>>)

DictKeys(pairs) == [i \in 1..Len(pairs) |-> pairs[i][1]]

(***************************************************************************)
(* json.loads(s): whitespace, objects, arrays, strings, integers, true,    *)
(* false and null.  Fractions, exponents, NaN, Infinity and the escapes    *)
(* \b \f \u are outside the modelled documents.  A scan returns the value  *)
(* and the position after it.  The text of a JSONDecodeError is the kind   *)
(* of the error without its position, which the handler never reads.       *)
(***************************************************************************)
JSONDecodeError(msg) == Raise("JSONDecodeError", msg)

At(val, pos) == Ok([val |-> val, pos |-> pos])

IsWhitespace(c) == c = " " \/ c = "\t" \/ c = "\n" \/ c = "\r"

RECURSIVE SkipWhitespace(_, _)
SkipWhitespace(s, i) ==
    IF i <= Len(s) /\ IsWhitespace(CharAt(s, i)) THEN SkipWhitespace(s, i + 1) ELSE i

\* STRINGCHUNK: a string literal's text is read in chunks that end at a
\* quote, a backslash or a control character.
IsTerminator(c) == c = "\"" \/ c = "\\" \/ c = "\n" \/ c = "\t" \/ c = "\r"

\* The position of the first terminator among the characters lo..hi of s,
\* hi + 1 when there is none.
RECURSIVE NextTerminator(_, _, _)
NextTerminator(s, lo, hi) ==
    IF lo > hi THEN hi + 1
    ELSE IF lo = hi THEN (IF IsTerminator(CharAt(s, lo)) THEN lo ELSE hi + 1)
    ELSE LET mid == (lo + hi) \div 2
             pick(left) == IF left <= mid THEN left ELSE NextTerminator(s, mid + 1, hi)
         IN  pick(NextTerminator(s, lo, mid))

\* py_scanstring: the text from i, after the opening quote, up to the
\* closing quote; acc holds the chunks read so far.
RECURSIVE ScanChunks(_, _, _)
ScanChunks(s, i, acc) ==
    LET chunk(t, text, c, e) ==
            IF t > Len(s) THEN JSONDecodeError("Unterminated string starting at")
            ELSE IF c = "\"" THEN At(text, t + 1)
            ELSE IF c # "\\" THEN JSONDecodeError("Invalid control character at")
            ELSE IF t + 1 > Len(s) THEN JSONDecodeError("Unterminated string starting at")
            ELSE IF e = "\"" \/ e = "\\" \/ e = "/" THEN ScanChunks(s, t + 2, text \o e)
            ELSE IF e = "n" THEN ScanChunks(s, t + 2, text \o "\n")
            ELSE IF e = "t" THEN ScanChunks(s, t + 2, text \o "\t")
            ELSE IF e = "r" THEN ScanChunks(s, t + 2, text \o "\r")
            ELSE IF e = "b" \/ e = "f" \/ e = "u" THEN Unmodelled
            ELSE JSONDecodeError("Invalid \\escape")
        upto(t) == chunk(t, acc \o Slice(s, i, t - 1), CharAt(s, t), CharAt(s, t + 1))
    IN  upto(NextTerminator(s, i, Len(s)))

ScanString(s, i) == ScanChunks(s, i, "")

\* The digits from i on: their value and the position after them.
RECURSIVE ScanDigits(_, _, _)
ScanDigits(s, i, acc) ==
    LET digit(v) ==
            IF v >= 0 THEN ScanDigits(s, i + 1, acc * 10 + v)
            ELSE [val |-> acc, pos |-> i]
    IN  digit(IndexOf(Digits, CharAt(s, i)) - 1)

\* NUMBER_RE: -?(0|[1-9][0-9]*), at most nine digits, no fraction or exponent.
ScanNumber(s, i) ==
    LET neg   == CharAt(s, i) = "-"
        first == IF neg THEN i + 1 ELSE i
        number(d, next) ==
            IF d.pos = first
            THEN IF neg /\ CharAt(s, first) = "I" THEN Unmodelled
                 ELSE JSONDecodeError("Expecting value")
            ELSE IF d.pos - first > 9 \/ next = "." \/ next = "e" \/ next = "E"
            THEN Unmodelled
            ELSE At(JInt(IF neg THEN 0 - d.val ELSE d.val), d.pos)
        digits(d) == number(d, CharAt(s, d.pos))
    IN  digits(IF CharAt(s, first) = "0"
               THEN [val |-> 0, pos |-> first + 1]
               ELSE ScanDigits(s, first, 0))

RECURSIVE ScanValue(_, _), ScanObject(_, _, _), ScanArray(_, _, _)
\* scan_once at i.
ScanValue(s, i) ==
    LET c == CharAt(s, i)
        string(r) == IF r.st = "ok" THEN At(JStr(r.val.val), r.val.pos) ELSE r
        object(j) ==
            IF CharAt(s, j) = "}" THEN At(JDict(<<>>), j + 1) ELSE ScanObject(s, j, <<>>)
        array(j) ==
            IF CharAt(s, j) = "]" THEN At(JList(<<>>), j + 1) ELSE ScanArray(s, j, <<>>)
    IN  IF i > Len(s) THEN JSONDecodeError("Expecting value")
        ELSE IF c = "\"" THEN string(ScanString(s, i + 1))
        ELSE IF c = "{" THEN object(SkipWhitespace(s, i + 1))
        ELSE IF c = "[" THEN array(SkipWhitespace(s, i + 1))
        ELSE IF Slice(s, i, i + 3) = "null" THEN At(JNull, i + 4)
        ELSE IF Slice(s, i, i + 3) = "true" THEN At(JBool(TRUE), i + 4)
        ELSE IF Slice(s, i, i + 4) = "false" THEN At(JBool(FALSE), i + 5)
        ELSE IF c = "-" \/ Contains(Digits, c) THEN ScanNumber(s, i)
        ELSE IF Slice(s, i, i + 2) = "NaN" \/ Slice(s, i, i + 7) = "Infinity"
        THEN Unmodelled
        ELSE JSONDecodeError("Expecting value")

\* JSONObject from the key at i on; pairs holds the members read so far.
ScanObject(s, i, pairs) ==
    LET rest(more, j) ==
            IF CharAt(s, j) = "}" THEN At(JDict(more), j + 1)
            ELSE IF CharAt(s, j) # ","
            THEN JSONDecodeError("Expecting ',' delimiter")
            ELSE ScanObject(s, SkipWhitespace(s, j + 1), more)
        member(k, v) ==
            IF v.st # "ok" THEN v
            ELSE rest(DictSet(pairs, k.val.val, v.val.val), SkipWhitespace(s, v.val.pos))
        value(k, colon) ==
            IF CharAt(s, colon) # ":"
            THEN JSONDecodeError("Expecting ':' delimiter")
            ELSE member(k, ScanValue(s, SkipWhitespace(s, colon + 1)))
        key(k) == IF k.st # "ok" THEN k ELSE value(k, SkipWhitespace(s, k.val.pos))
    IN  IF CharAt(s, i) # "\""
        THEN JSONDecodeError("Expecting property name enclosed in double quotes")
        ELSE key(ScanString(s, i + 1))

\* JSONArray from the element at i on; items holds the elements read so far.
ScanArray(s, i, items) ==
    LET rest(more, j) ==
            IF CharAt(s, j) = "]" THEN At(JList(more), j + 1)
            ELSE IF CharAt(s, j) # ","
            THEN JSONDecodeError("Expecting ',' delimiter")
            ELSE ScanArray(s, SkipWhitespace(s, j + 1), more)
        element(v) ==
            IF v.st # "ok" THEN v
            ELSE rest(Append(items, v.val.val), SkipWhitespace(s, v.val.pos))
    IN  element(ScanValue(s, i))

json_loads(s) ==
    LET document(r) ==
            IF r.st # "ok" THEN r
            ELSE IF SkipWhitespace(s, r.val.pos) # Len(s) + 1
            THEN JSONDecodeError("Extra data")
            ELSE Ok(r.val.val)
    IN  document(ScanValue(s, SkipWhitespace(s, 1)))

(***************************************************************************)
(* json.dumps(value) with the default separators ", " and ": ".            *)
(***************************************************************************)
EscapeJsonChar(c) ==
    CASE c = "\"" -> "\\\""
      [] c = "\\" -> "\\\\"
      [] c = "\n" -> "\\n"
      [] c = "\t" -> "\\t"
      [] c = "\r" -> "\\r"
      [] OTHER -> c

\* The characters lo..hi of s escaped, one half after the other.
RECURSIVE EscapeJson(_, _, _)
EscapeJson(s, lo, hi) ==
    IF lo > hi THEN ""
    ELSE IF lo = hi THEN EscapeJsonChar(CharAt(s, lo))
    ELSE EscapeJson(s, lo, (lo + hi) \div 2)
         \o EscapeJson(s, ((lo + hi) \div 2) + 1, hi)

RECURSIVE json_dumps(_), DumpItems(_, _), DumpPairs(_, _)
json_dumps(value) ==
    CASE TypeOf(value) = "str" -> "\"" \o EscapeJson(ValueOf(value), 1, Len(ValueOf(value))) \o "\""
      [] TypeOf(value) = "int" ->
             IF ValueOf(value) < 0 THEN "-" \o IntToStr(0 - ValueOf(value)) ELSE IntToStr(ValueOf(value))
      [] TypeOf(value) = "bool" -> IF ValueOf(value) THEN "true" ELSE "false"
      [] TypeOf(value) = "NoneType" -> "null"
      [] TypeOf(value) = "list" -> "[" \o DumpItems(ValueOf(value), 1) \o "]"
      [] TypeOf(value) = "dict" -> "{" \o DumpPairs(ValueOf(value), 1) \o "}"

DumpItems(items, i) ==
    IF i > Len(items) THEN ""
    ELSE json_dumps(items[i]) \o (IF i < Len(items) THEN ", " ELSE "")
         \o DumpItems(items, i + 1)

DumpPairs(pairs, i) ==
    IF i > Len(pairs) THEN ""
    ELSE "\"" \o EscapeJson(pairs[i][1], 1, Len(pairs[i][1])) \o "\": " \o json_dumps(pairs[i][2])
         \o (IF i < Len(pairs) THEN ", " ELSE "") \o DumpPairs(pairs, i + 1)

(***************************************************************************)
(* str(value) and repr(value), as str.format and f-strings render a field. *)
(***************************************************************************)
EscapeReprChar(c, quote) ==
    CASE c = "\\" -> "\\\\"
      [] c = quote -> "\\" \o quote
      [] c = "\n" -> "\\n"
      [] c = "\t" -> "\\t"
      [] c = "\r" -> "\\r"
      [] OTHER -> c

\* The characters lo..hi of s escaped, one half after the other.
RECURSIVE EscapeRepr(_, _, _, _)
EscapeRepr(s, lo, hi, quote) ==
    IF lo > hi THEN ""
    ELSE IF lo = hi THEN EscapeReprChar(CharAt(s, lo), quote)
    ELSE EscapeRepr(s, lo, (lo + hi) \div 2, quote)
         \o EscapeRepr(s, ((lo + hi) \div 2) + 1, hi, quote)

ReprStr(s) ==
    LET quote == IF Contains(s, "'") /\ ~Contains(s, "\"") THEN "\"" ELSE "'"
    IN  quote \o EscapeRepr(s, 1, Len(s), quote) \o quote

RECURSIVE PyRepr(_), ReprItems(_, _), ReprPairs(_, _)
PyRepr(value) ==
    CASE TypeOf(value) = "str" -> ReprStr(ValueOf(value))
      [] TypeOf(value) = "int" ->
             IF ValueOf(value) < 0 THEN "-" \o IntToStr(0 - ValueOf(value)) ELSE IntToStr(ValueOf(value))
      [] TypeOf(value) = "bool" -> IF ValueOf(value) THEN "True" ELSE "False"
      [] TypeOf(value) = "NoneType" -> "None"
      [] TypeOf(value) = "list" -> "[" \o ReprItems(ValueOf(value), 1) \o "]"
      [] TypeOf(value) = "dict" -> "{" \o ReprPairs(ValueOf(value), 1) \o "}"

ReprItems(items, i) ==
    IF i > Len(items) THEN ""
    ELSE PyRepr(items[i]) \o (IF i < Len(items) THEN ", " ELSE "")
         \o ReprItems(items, i + 1)

ReprPairs(pairs, i) ==
    IF i > Len(pairs) THEN ""
    ELSE ReprStr(pairs[i][1]) \o ": " \o PyRepr(pairs[i][2])
         \o (IF i < Len(pairs) THEN ", " ELSE "") \o ReprPairs(pairs, i + 1)

PyStr(value) == IF TypeOf(value) = "str" THEN ValueOf(value) ELSE PyRepr(value)

(***************************************************************************)
(* _load_body: the event's body as a parsed JSON value.                    *)
(* An event is [body, isBase64Encoded]; its body is one of                 *)
(*   BodyAbsent   the event has no "body" key                              *)
(*   BodyNone     the key holds None (a JSON null in the event)            *)
(*   BodyStr(text), BodyBytes(bytes)                                       *)
(***************************************************************************)
BodyAbsent == <<"absent">>

BodyNone == JNull

BodyStr(s) == JStr(s)

BodyBytes(b) == <<"bytes", b>>

BadRequestError(msg) == Raise("BadRequestError", msg)

\* Lines 32-34: event.get("body", ""), bytes decoded as UTF-8.
BodyText(event) ==
    LET text(r) == IF r.st = "ok" THEN Ok(BodyStr(r.val)) ELSE r
    IN  CASE TypeOf(event.body) = "absent" -> Ok(BodyStr(""))
          [] TypeOf(event.body) = "bytes" -> text(decode_utf8(ValueOf(event.body)))
          [] OTHER -> Ok(event.body)

\* Lines 36-37: base64.b64decode(body).decode("utf-8") when the flag is set.
TransportDecode(event, body) ==
    LET text(r) == IF r.st = "ok" THEN Ok(BodyStr(r.val)) ELSE r
        decoded(b) == IF b.st # "ok" THEN b ELSE text(decode_utf8(b.val))
    IN  IF ~event.isBase64Encoded THEN Ok(body)
        ELSE IF TypeOf(body) = "NoneType"
        THEN Raise("TypeError",
                   "argument should be a bytes-like object or ASCII string, not 'NoneType'")
        ELSE decoded(b64decode(ValueOf(body)))

load_body(event) ==
    LET parsed(doc) ==
            IF doc.st = "raise"
            THEN BadRequestError("Request body must be valid JSON.")
            ELSE doc
        decoded(body) ==
            IF body.st # "ok" THEN body
            ELSE IF ~Truthy(body.val)
            THEN BadRequestError("Request body is required.")
            ELSE parsed(json_loads(ValueOf(body.val)))
        read(first) ==
            IF first.st # "ok" THEN first ELSE decoded(TransportDecode(event, first.val))
    IN  read(BodyText(event))

(***************************************************************************)
(* _validate_payload: the missing fields, or the form_data record built    *)
(* from the payload, the fresh uuid4 and the current UTC time.             *)
(***************************************************************************)
required_fields == <<"name", "email", "phone", "inquiry_type", "message">>

\* ', '.join(names)
RECURSIVE JoinComma(_, _)
JoinComma(names, i) ==
    IF i > Len(names) THEN ""
    ELSE names[i] \o (IF i < Len(names) THEN ", " ELSE "") \o JoinComma(names, i + 1)

\* Fault: only the first missing field is reported.
FirstMissingField(payload) ==
    LET absent(field) == ~Truthy(DictGet(ValueOf(payload), field))
        missing == SelectSeq(required_fields, absent)
    IN  IF missing = <<>> THEN <<>> ELSE <<Head(missing)>>

MissingFields(payload) ==
    LET absent(field) == ~Truthy(DictGet(ValueOf(payload), field))
    IN  SelectSeq(required_fields, absent)

\* Lines 53-56: the exception the check raises, Ok(payload) when it passes.
check_required(payload) ==
    LET check(missing) ==
            IF missing # <<>>
            THEN BadRequestError("Missing required fields: " \o JoinComma(missing, 1))
            ELSE Ok(payload)
    IN  IF TypeOf(payload) # "dict"
        THEN Raise("AttributeError",
                   "'" \o TypeOf(payload) \o "' object has no attribute 'get'")
        ELSE check(MissingFields(payload))

\* Lines 61-69.
build_form_data(payload, submission_id, timestamp) ==
    JDict(<< <<"submission_id", JStr(submission_id)>>,
             <<"name", DictGet(ValueOf(payload), "name")>>,
             <<"email", DictGet(ValueOf(payload), "email")>>,
             <<"phone", DictGet(ValueOf(payload), "phone")>>,
             <<"inquiry_type", DictGet(ValueOf(payload), "inquiry_type")>>,
             <<"message", DictGet(ValueOf(payload), "message")>>,
             <<"created_at", JStr(timestamp)>> >>)

validate_payload(payload, submission_id, timestamp) ==
    LET validated(checked) ==
            IF checked.st # "ok" THEN checked
            ELSE Ok(build_form_data(payload, submission_id, timestamp))
    IN  validated(check_required(payload))

(***************************************************************************)
(* _build_customer_email and _build_owner_email: subject and the body's    *)
(* plain-text and HTML renderings.                                         *)
(***************************************************************************)
Field(form_data, key) == PyStr(DictGet(ValueOf(form_data), key))

\* The fields of form_data as str.format and an f-string render them.
Fields(form_data) ==
    [key \in {"submission_id", "name", "email", "phone", "inquiry_type", "message"}
        |-> Field(form_data, key)]

CustomerSubject(field) ==
        "Thank you for your submission, "
        \o field.name

CustomerText(field) ==
        "Hello "
        \o field.name
        \o ",\n"
        \o "\n"
        \o "Thank you for contacting TravelEase. We received your submission (ID: "
        \o field.submission_id
        \o ").\n"
        \o "Here are the details:\n"
        \o "- Name: "
        \o field.name
        \o "\n"
        \o "- Email: "
        \o field.email
        \o "\n"
        \o "- Phone: "
        \o field.phone
        \o "\n"
        \o "- Inquiry Type: "
        \o field.inquiry_type
        \o "\n"
        \o "- Message: "
        \o field.message
        \o "\n"

CustomerHtml(field) ==
        "\n"
        \o "    <html>\n"
        \o "      <body>\n"
        \o "        <h1>TravelEase Submission Received</h1>\n"
        \o "        <p><strong>Submission ID:</strong> "
        \o field.submission_id
        \o "</p>\n"
        \o "        <ul>\n"
        \o "          <li><strong>Name:</strong> "
        \o field.name
        \o "</li>\n"
        \o "          <li><strong>Email:</strong> "
        \o field.email
        \o "</li>\n"
        \o "          <li><strong>Phone:</strong> "
        \o field.phone
        \o "</li>\n"
        \o "          <li><strong>Inquiry Type:</strong> "
        \o field.inquiry_type
        \o "</li>\n"
        \o "          <li><strong>Message:</strong> "
        \o field.message
        \o "</li>\n"
        \o "        </ul>\n"
        \o "      </body>\n"
        \o "    </html>\n"
        \o "    "

build_customer_email(form_data) ==
    LET email(field) ==
            [subject |-> CustomerSubject(field),
             body |-> [Text |-> CustomerText(field), Html |-> CustomerHtml(field)]]
    IN  email(Fields(form_data))

OwnerSubject(field) ==
        "New TravelEase submission from "
        \o field.name

OwnerText(field) ==
        "A new travel form submission has been received.\n"
        \o "\n"
        \o "Submission ID: "
        \o field.submission_id
        \o "\n"
        \o "Name: "
        \o field.name
        \o "\n"
        \o "Email: "
        \o field.email
        \o "\n"
        \o "Phone: "
        \o field.phone
        \o "\n"
        \o "Inquiry Type: "
        \o field.inquiry_type
        \o "\n"
        \o "Message: "
        \o field.message
        \o "\n"

OwnerHtml(field) ==
        "\n"
        \o "    <html>\n"
        \o "      <body>\n"
        \o "        <h1>New TravelEase Form Submission</h1>\n"
        \o "        <p><strong>Submission ID:</strong> "
        \o field.submission_id
        \o "</p>\n"
        \o "        <ul>\n"
        \o "          <li><strong>Name:</strong> "
        \o field.name
        \o "</li>\n"
        \o "          <li><strong>Email:</strong> "
        \o field.email
        \o "</li>\n"
        \o "          <li><strong>Phone:</strong> "
        \o field.phone
        \o "</li>\n"
        \o "          <li><strong>Inquiry Type:</strong> "
        \o field.inquiry_type
        \o "</li>\n"
        \o "          <li><strong>Message:</strong> "
        \o field.message
        \o "</li>\n"
        \o "        </ul>\n"
        \o "      </body>\n"
        \o "    </html>\n"
        \o "    "

build_owner_email(form_data) ==
    LET email(field) ==
            [subject |-> OwnerSubject(field),
             body |-> [Text |-> OwnerText(field), Html |-> OwnerHtml(field)]]
    IN  email(Fields(form_data))

(***************************************************************************)
(* Module globals (lines 14-22), read from the environment at import.  An  *)
(* environment variable is None when unset, else a str.                    *)
(***************************************************************************)
\* os.environ.get(name, default)
EnvGet(value, default) == IF TypeOf(value) = "NoneType" THEN default ELSE value

\* Fault: the owner address has no default.
ModuleGlobalsWithoutFallback(env) ==
    LET source_email == env.SOURCE_EMAIL
        owner_email  == env.OWNER_EMAIL
    IN  [table_name            |-> env.TABLE_NAME,
         queue_url             |-> env.QUEUE_URL,
         source_email          |-> source_email,
         owner_email           |-> owner_email,
         business_email        |-> EnvGet(env.BUSINESS_EMAIL, owner_email),
         sns_topic_arn         |-> env.SNS_TOPIC_ARN,
         ses_configuration_set |-> env.SES_CONFIGURATION_SET,
         table                 |-> IF Truthy(env.TABLE_NAME)
                                   THEN <<"Table", ValueOf(env.TABLE_NAME)>> ELSE JNull]

ModuleGlobals(env) ==
    LET source_email == env.SOURCE_EMAIL
        owner_email  == EnvGet(env.OWNER_EMAIL, source_email)
    IN  [table_name            |-> env.TABLE_NAME,
         queue_url             |-> env.QUEUE_URL,
         source_email          |-> source_email,
         owner_email           |-> owner_email,
         business_email        |-> EnvGet(env.BUSINESS_EMAIL, owner_email),
         sns_topic_arn         |-> env.SNS_TOPIC_ARN,
         ses_configuration_set |-> env.SES_CONFIGURATION_SET,
         table                 |-> IF Truthy(env.TABLE_NAME)
                                   THEN <<"Table", ValueOf(env.TABLE_NAME)>> ELSE JNull]

(***************************************************************************)
(* Bounds and the inputs drawn in Init                                     *)
(***************************************************************************)
\* Invocations that exist; Spec runs the first one.
MaxRequests == 2

\* uuid4 draws one of this many values.
MaxUuids == 2

\* datetime.now reads one of the instants 0..MaxClock, in seconds.
MaxClock == 1

Requests == 1..MaxRequests

\* str(uuid.uuid4()): version 4, variant 1, the other digits from n.
UuidText(n) == "00000000-0000-4000-8000-00000000000" \o IntToStr(n)

Uuids == {UuidText(n) : n \in 1..MaxUuids}

\* datetime(2025, 1, 1, 0, 0, n, tzinfo=utc).isoformat() for n below 10.
IsoFormat(n) == "2025-01-01T00:00:0" \o IntToStr(n) \o "+00:00"

Timestamps == {IsoFormat(n) : n \in 0..MaxClock}

EnvValues(strings) == {JNull} \cup {JStr(v) : v \in strings}

Environments ==
    [TABLE_NAME            : EnvValues({"Submissions"}),
     QUEUE_URL             : EnvValues({"https://sqs.example/q"}),
     SOURCE_EMAIL          : EnvValues({"noreply@travelease.example"}),
     OWNER_EMAIL           : EnvValues({"owner@travelease.example"}),
     BUSINESS_EMAIL        : EnvValues({"", "owner@travelease.example",
                                        "biz@travelease.example"}),
     SNS_TOPIC_ARN         : EnvValues({"arn:aws:sns:topic"}),
     SES_CONFIGURATION_SET : EnvValues({"tracking"})]

(***************************************************************************)
(* Events.  Payload documents give every subset of the required fields a   *)
(* missing value: the key left out, or one of the falsy JSON values.       *)
(***************************************************************************)
\* The missing values are taken from FalsyStyles in MaxRotation + 1 rotations.
MaxRotation == 0

KeyAbsent == <<"absent">>

FalsyStyles ==
    <<KeyAbsent, JStr(""), JInt(0), JNull, JBool(FALSE), JList(<<>>), JDict(<<>>)>>

SampleValues == <<JStr("A"), JStr("a@x.com"), JStr("123"), JStr("Tour"), JStr("Hi")>>

\* The payload whose fields in missing take their falsy style of rotation k:
\* for k = 0 name is left out, email is "", phone 0, inquiry_type null and
\* message false.
RECURSIVE PayloadPairs(_, _, _)
PayloadPairs(missing, k, j) ==
    IF j > Len(required_fields) THEN <<>>
    ELSE LET field == required_fields[j]
             style == FalsyStyles[((j + k - 1) % Len(FalsyStyles)) + 1]
             rest  == PayloadPairs(missing, k, j + 1)
         IN  IF field \notin missing THEN <<<<field, SampleValues[j]>>>> \o rest
             ELSE IF style = KeyAbsent THEN rest
             ELSE <<<<field, style>>>> \o rest

FieldNames == {required_fields[j] : j \in 1..Len(required_fields)}

InvalidPayloads ==
    {JDict(PayloadPairs(missing, k, 1)) :
        missing \in (SUBSET FieldNames) \ {{}}, k \in 0..MaxRotation}

\* Truthy values need not be text, and keys beyond the five are ignored.
ValidPayloads ==
    {JDict(PayloadPairs({}, 0, 1)),
     JDict(<< <<"note", JStr("x")>>, <<"name", JStr("B")>>, <<"email", JStr("b@x.com")>>,
              <<"phone", JInt(123)>>, <<"inquiry_type", JList(<<JStr("Tour")>>)>>,
              <<"message", JBool(TRUE)>> >>)}

Event(body, isBase64Encoded) == [body |-> body, isBase64Encoded |-> isBase64Encoded]

PlainEvents ==
    {Event(BodyStr(json_dumps(d)), FALSE) : d \in ValidPayloads \cup InvalidPayloads}
    \cup {Event(b, FALSE) :
            b \in {BodyAbsent, BodyNone, BodyStr(""), BodyStr("  "), BodyStr("hello"),
                   BodyStr("{\"name\": \"A\""), BodyStr("[]"), BodyStr("null"),
                   BodyStr("7"), BodyStr("\"text\""),
                   BodyBytes(<<123, 125>>), BodyBytes(<<255>>)}}

\* base64 of the sample payload, of the sample with an empty email, of
\* "hello" and of "[]"; text that is not base64; base64 of the byte 0xff.
EncodedEvents ==
    {Event(b, TRUE) :
        b \in {BodyStr("eyJuYW1lIjogIkEiLCAiZW1haWwiOiAiYUB4LmNvbSIsICJwaG9uZSI6ICIxMjMiLCAiaW5xdWlyeV90eXBlIjogIlRvdXIiLCAibWVzc2FnZSI6ICJIaSJ9"),
               BodyStr("eyJuYW1lIjogIkEiLCAiZW1haWwiOiAiIiwgInBob25lIjogIjEyMyIsICJpbnF1aXJ5X3R5cGUiOiAiVG91ciIsICJtZXNzYWdlIjogIkhpIn0="),
               BodyStr("aGVsbG8="), BodyStr("W10="),
               BodyStr("abc"), BodyStr("a"), BodyStr("!!!"), BodyStr("/w=="),
               BodyStr("{\"name\": \"A\"}"),
               BodyStr(""), BodyAbsent, BodyNone}}

\* Every one of them decodes within the modelled texts and documents.
Events == PlainEvents \cup EncodedEvents

(***************************************************************************)
(* State                                                                   *)
(***************************************************************************)
VARIABLES
    environ,       \* os.environ as the module found it at import
    config,        \* the module globals of lines 14-22
    event,         \* event[r]: the event invocation r was called with
    pc,            \* pc[r]: the statement of lambda_handler that r runs next
    payload,       \* payload[r]: line 186
    form_data,     \* form_data[r]: line 187
    locals,        \* locals[r]: the collaborators' answers kept by r
    response,      \* response[r]: what r returned
    exc,           \* exc[r]: the exception r caught, and the statement that raised it
    sqs_queue,     \* messages the queue accepted, in order
    table_items,   \* items the table accepted, in order
    ses_outbox,    \* emails SES accepted, in order
    sns_topic,     \* messages the topic accepted, in order
    calls,         \* every call made to a collaborator, in order
    allocated,     \* the uuid4 values drawn so far
    issued         \* how many MessageIds the collaborators have issued

vars == <<environ, config, event, pc, payload, form_data, locals, response, exc, sqs_queue,
          table_items, ses_outbox, sns_topic, calls, allocated, issued>>

collaborators == <<sqs_queue, table_items, ses_outbox, sns_topic, calls, issued>>

\* A name that is not bound yet.
Unbound == <<"unbound">>

NoLocals ==
    [sqs_response |-> Unbound, customer_email_id |-> Unbound,
     owner_email_id |-> Unbound, business_email_id |-> Unbound,
     sns_response |-> Unbound]

NoEvent == Event(BodyAbsent, FALSE)

\* No exception has been caught.
NoException == [type |-> "", msg |-> "", at |-> ""]

\* The invocations in started are about to run, in an environment of
\* environments and each on an event of events; the others never do.
InitFrom(started, environments, events) ==
    /\ environ \in environments
    /\ config = ModuleGlobals(environ)
    /\ event \in {[r \in Requests |-> IF r \in started THEN f[r] ELSE NoEvent] :
                    f \in [started -> events]}
    /\ pc = [r \in Requests |-> IF r \in started THEN "load_body" ELSE "idle"]
    /\ payload = [r \in Requests |-> Unbound]
    /\ form_data = [r \in Requests |-> Unbound]
    /\ locals = [r \in Requests |-> NoLocals]
    /\ response = [r \in Requests |-> Unbound]
    /\ exc = [r \in Requests |-> NoException]
    /\ sqs_queue = <<>>
    /\ table_items = <<>>
    /\ ses_outbox = <<>>
    /\ sns_topic = <<>>
    /\ calls = <<>>
    /\ allocated = {}
    /\ issued = 0

InitWith(started) == InitFrom(started, Environments, Events)

Init == InitWith({1})

(***************************************************************************)
(* The except clauses of lambda_handler (lines 220-232) and the envelope.  *)
(***************************************************************************)
JsonHeaders == "Content-Type" :> "application/json"

Envelope(statusCode, body) ==
    [statusCode |-> statusCode, body |-> json_dumps(body), headers |-> JsonHeaders]

\* Fault: the error body also names the exception's type.
ErrorBodyWithType(raised) ==
    JDict(<< <<"error", JStr(raised.msg)>>, <<"type", JStr(raised.type)>> >>)

\* {"error": str(exc)} for the exception raised
ErrorBody(raised) == JDict(<< <<"error", JStr(raised.msg)>> >>)

Handle(raised) ==
    IF raised.type = "BadRequestError" THEN Envelope(400, ErrorBody(raised))
    ELSE Envelope(500, ErrorBody(raised))

\* Fault: the references of the skipped channels are left out of the body.
SuccessBodyWithoutNulls(form, loc) ==
    LET MessageIdOf(answer) ==
            IF Truthy(answer) THEN DictGet(ValueOf(answer), "MessageId") ELSE JNull
        present(pair) == pair[2] # JNull
    IN  JDict(SelectSeq(
            << <<"message", JStr("Form submitted successfully")>>,
               <<"submission_id", DictGet(ValueOf(form), "submission_id")>>,
               <<"customer_ses_message_id", MessageIdOf(loc.customer_email_id)>>,
               <<"owner_ses_message_id", MessageIdOf(loc.owner_email_id)>>,
               <<"business_ses_message_id", MessageIdOf(loc.business_email_id)>>,
               <<"sqs_message_id", MessageIdOf(loc.sqs_response)>>,
               <<"sns_message_id", MessageIdOf(loc.sns_response)>> >>, present))

\* Fault: the queue's and the topic's references are exchanged.
SuccessBodySwapped(form, loc) ==
    LET MessageIdOf(answer) ==
            IF Truthy(answer) THEN DictGet(ValueOf(answer), "MessageId") ELSE JNull
    IN  JDict(<< <<"message", JStr("Form submitted successfully")>>,
                 <<"submission_id", DictGet(ValueOf(form), "submission_id")>>,
                 <<"customer_ses_message_id", MessageIdOf(loc.customer_email_id)>>,
                 <<"owner_ses_message_id", MessageIdOf(loc.owner_email_id)>>,
                 <<"business_ses_message_id", MessageIdOf(loc.business_email_id)>>,
                 <<"sqs_message_id", MessageIdOf(loc.sns_response)>>,
                 <<"sns_message_id", MessageIdOf(loc.sqs_response)>> >>)

\* Lines 204-218.
SuccessBody(form, loc) ==
    LET MessageIdOf(answer) ==
            IF Truthy(answer) THEN DictGet(ValueOf(answer), "MessageId") ELSE JNull
    IN  JDict(<< <<"message", JStr("Form submitted successfully")>>,
                 <<"submission_id", DictGet(ValueOf(form), "submission_id")>>,
                 <<"customer_ses_message_id",
                   DictGet(ValueOf(loc.customer_email_id), "MessageId")>>,
                 <<"owner_ses_message_id",
                   DictGet(ValueOf(loc.owner_email_id), "MessageId")>>,
                 <<"business_ses_message_id", MessageIdOf(loc.business_email_id)>>,
                 <<"sqs_message_id", MessageIdOf(loc.sqs_response)>>,
                 <<"sns_message_id", MessageIdOf(loc.sns_response)>> >>)

(***************************************************************************)
(* The collaborators.  A call returns an answer that carries a MessageId   *)
(* no earlier answer carried, or raises a botocore ClientError.            *)
(***************************************************************************)
ErrorCodes == {"AccessDenied", "ServiceUnavailable"}

ClientError(code, operation) ==
    [type |-> "ClientError",
     msg  |-> "An error occurred (" \o code \o ") when calling the " \o operation
              \o " operation: " \o code]

ClientErrors(operation) == {ClientError(code, operation) : code \in ErrorCodes}

NextMessageId == "msg-" \o IntToStr(issued + 1)

Answer(message_id) == JDict(<< <<"MessageId", JStr(message_id)>> >>)

Call(r, api, raised) == [req |-> r, api |-> api, step |-> pc[r], raised |-> raised]

\* _send_email lines 155-165: the parameters of ses.send_email.
SendEmailParams(recipient, subject, body) ==
    LET params ==
            [Source      |-> ValueOf(config.source_email),
             Destination |-> [ToAddresses |-> <<recipient>>],
             Message     |-> [Subject |-> [Data |-> subject],
                              Body    |-> [Text |-> [Data |-> body.Text],
                                           Html |-> [Data |-> body.Html]]]]
    IN  IF Truthy(config.ses_configuration_set)
        THEN [ConfigurationSetName |-> ValueOf(config.ses_configuration_set)] @@ params
        ELSE params

(***************************************************************************)
(* lambda_handler, one action per statement that can end the invocation.   *)
(***************************************************************************)
\* Fault: the store is written before the queue is sent to.
StatementsPersistFirst ==
    <<"load_body", "validate_payload", "store_submission", "send_sqs_message",
      "send_customer_email", "send_owner_email", "send_business_email",
      "publish_to_topic", "build_response">>

\* Fault: the customer is notified before the submission is enqueued and
\* persisted.
StatementsNotifyFirst ==
    <<"load_body", "validate_payload", "send_customer_email", "send_sqs_message",
      "store_submission", "send_owner_email", "send_business_email",
      "publish_to_topic", "build_response">>

\* The statements of the try block (lines 186-218), in program order.
Statements ==
    <<"load_body", "validate_payload", "send_sqs_message", "store_submission",
      "send_customer_email", "send_owner_email", "send_business_email",
      "publish_to_topic", "build_response">>

\* The statement that runs once statement has completed.
Following(statement) ==
    Statements[(CHOOSE i \in 1..Len(Statements) : Statements[i] = statement) + 1]

\* The statement r is at completes without an exception.
Advance(r) ==
    /\ pc' = [pc EXCEPT ![r] = Following(pc[r])]
    /\ UNCHANGED <<response, exc>>

Bind(r, name, value) == locals' = [locals EXCEPT ![r][name] = value]

\* The handler's locals when the call of the statement r is at raises: line
\* 198 has bound business_email_id to None before the call of line 200; every
\* other statement binds its local only from the call's answer.
LocalsAtRaise(r) ==
    IF pc[r] = "send_business_email"
    THEN [locals EXCEPT ![r]["business_email_id"] = JNull]
    ELSE locals

\* Fault: only BadRequestError and botocore's ClientError are caught; any
\* other exception leaves the handler.
AbortUnlessKnown(r, raised) ==
    IF raised.type \in {"BadRequestError", "ClientError"}
    THEN /\ exc' = [exc EXCEPT ![r] =
                [type |-> raised.type, msg |-> raised.msg, at |-> pc[r]]]
         /\ response' = [response EXCEPT ![r] = Handle(raised)]
         /\ pc' = [pc EXCEPT ![r] = "returned"]
    ELSE /\ exc' = [exc EXCEPT ![r] =
                [type |-> raised.type, msg |-> raised.msg, at |-> pc[r]]]
         /\ pc' = [pc EXCEPT ![r] = "escaped"]
         /\ UNCHANGED response

\* An exception raised by the statement r is at reaches the except clauses.
Abort(r, raised) ==
    /\ exc' = [exc EXCEPT ![r] = [type |-> raised.type, msg |-> raised.msg, at |-> pc[r]]]
    /\ response' = [response EXCEPT ![r] = Handle(raised)]
    /\ pc' = [pc EXCEPT ![r] = "returned"]

\* Fault: a failed call takes the request's message back from the queue and
\* its item back from the table.
RaisesAndCompensates(r, api, raised) ==
    LET others(m) == m.MessageBody # json_dumps(form_data[r])
        kept(item) == item.Item # form_data[r]
    IN  /\ calls' = Append(calls, Call(r, api, TRUE))
        /\ Abort(r, raised)
        /\ locals' = LocalsAtRaise(r)
        /\ sqs_queue' = SelectSeq(sqs_queue, others)
        /\ table_items' = SelectSeq(table_items, kept)
        /\ UNCHANGED <<ses_outbox, sns_topic, issued>>

\* Fault: a call that raised is made once more before the request gives up.
RaisesThenRetries(r, api, raised) ==
    /\ calls' = Append(calls, Call(r, api, TRUE))
    /\ IF \E i \in 1..Len(calls) : calls[i].req = r /\ calls[i].step = pc[r]
       THEN Abort(r, raised)
       ELSE UNCHANGED <<pc, response, exc>>
    /\ locals' = LocalsAtRaise(r)
    /\ UNCHANGED <<sqs_queue, table_items, ses_outbox, sns_topic, issued>>

\* A collaborator's call raises: nothing was accepted, and nothing that an
\* earlier call made a collaborator accept is taken back.
Raises(r, api, raised) ==
    /\ calls' = Append(calls, Call(r, api, TRUE))
    /\ Abort(r, raised)
    /\ locals' = LocalsAtRaise(r)
    /\ UNCHANGED <<sqs_queue, table_items, ses_outbox, sns_topic, issued>>

\* Line 186.
LoadBody(r) ==
    /\ pc[r] = "load_body"
    /\ \E loaded \in {load_body(event[r])} :
           IF loaded.st = "ok"
           THEN /\ payload' = [payload EXCEPT ![r] = loaded.val]
                /\ Advance(r)
           ELSE /\ Abort(r, loaded.exc)
                /\ UNCHANGED payload
    /\ UNCHANGED <<environ, config, event, form_data, locals, collaborators, allocated>>

\* Fault: the id is drawn before the required fields are checked.
ValidatePayloadDrawsFirst(r) ==
    /\ pc[r] = "validate_payload"
    /\ \E submission_id \in Uuids \ allocated, timestamp \in Timestamps :
           /\ allocated' = allocated \cup {submission_id}
           /\ \E checked \in {check_required(payload[r])} :
                  IF checked.st = "ok"
                  THEN /\ form_data' = [form_data EXCEPT ![r] =
                              build_form_data(payload[r], submission_id, timestamp)]
                       /\ Advance(r)
                  ELSE /\ Abort(r, checked.exc)
                       /\ UNCHANGED form_data
    /\ UNCHANGED <<environ, config, event, payload, locals, collaborators>>

\* Fault: the submission's id is derived from the payload's field values.
ValidatePayloadContentId(r) ==
    /\ pc[r] = "validate_payload"
    /\ \E checked \in {check_required(payload[r])} :
           IF checked.st = "ok"
           THEN /\ \E submission_id \in
                         {UuidText(1 + (Len(PyStr(DictGet(ValueOf(payload[r]), "email")))
                                           % MaxUuids))},
                      timestamp \in Timestamps :
                      /\ form_data' = [form_data EXCEPT ![r] =
                             build_form_data(payload[r], submission_id, timestamp)]
                      /\ allocated' = allocated \cup {submission_id}
                /\ Advance(r)
           ELSE /\ Abort(r, checked.exc)
                /\ UNCHANGED <<form_data, allocated>>
    /\ UNCHANGED <<environ, config, event, payload, locals, collaborators>>

\* Line 187: uuid4 and the clock are read only once the check has passed.
\* uuid4 is taken to return a value it has not returned before.
ValidatePayload(r) ==
    /\ pc[r] = "validate_payload"
    /\ \E checked \in {check_required(payload[r])} :
           IF checked.st = "ok"
           THEN /\ \E submission_id \in Uuids \ allocated, timestamp \in Timestamps :
                      /\ form_data' = [form_data EXCEPT ![r] =
                             build_form_data(payload[r], submission_id, timestamp)]
                      /\ allocated' = allocated \cup {submission_id}
                /\ Advance(r)
           ELSE /\ Abort(r, checked.exc)
                /\ UNCHANGED <<form_data, allocated>>
    /\ UNCHANGED <<environ, config, event, payload, locals, collaborators>>

\* Fault: the queue's message is a copy of the submission stamped again
\* when it is sent.
SendSqsMessageRestamped(r) ==
    /\ pc[r] = "send_sqs_message"
    /\ IF ~Truthy(config.queue_url)
       THEN /\ Bind(r, "sqs_response", JNull)
            /\ Advance(r)
            /\ UNCHANGED collaborators
       ELSE \/ \E timestamp \in Timestamps :
               /\ sqs_queue' = Append(sqs_queue,
                      [MessageId   |-> NextMessageId,
                       QueueUrl    |-> ValueOf(config.queue_url),
                       MessageBody |-> json_dumps(JDict(DictSet(ValueOf(form_data[r]),
                                          "created_at", JStr(timestamp))))])
               /\ issued' = issued + 1
               /\ calls' = Append(calls, Call(r, "sqs.send_message", FALSE))
               /\ Bind(r, "sqs_response", Answer(NextMessageId))
               /\ Advance(r)
               /\ UNCHANGED <<table_items, ses_outbox, sns_topic>>
            \/ \E raised \in ClientErrors("SendMessage") :
                  Raises(r, "sqs.send_message", raised)
    /\ UNCHANGED <<environ, config, event, payload, form_data, allocated>>

\* Line 189, _send_sqs_message.
SendSqsMessage(r) ==
    /\ pc[r] = "send_sqs_message"
    /\ IF ~Truthy(config.queue_url)
       THEN /\ Bind(r, "sqs_response", JNull)
            /\ Advance(r)
            /\ UNCHANGED collaborators
       ELSE \/ /\ sqs_queue' = Append(sqs_queue,
                      [MessageId   |-> NextMessageId,
                       QueueUrl    |-> ValueOf(config.queue_url),
                       MessageBody |-> json_dumps(form_data[r])])
               /\ issued' = issued + 1
               /\ calls' = Append(calls, Call(r, "sqs.send_message", FALSE))
               /\ Bind(r, "sqs_response", Answer(NextMessageId))
               /\ Advance(r)
               /\ UNCHANGED <<table_items, ses_outbox, sns_topic>>
            \/ \E raised \in ClientErrors("SendMessage") :
                  Raises(r, "sqs.send_message", raised)
    /\ UNCHANGED <<environ, config, event, payload, form_data, allocated>>

\* Fault: an exception raised by put_item is swallowed and the handler goes on.
StoreSubmissionBestEffort(r) ==
    /\ pc[r] = "store_submission"
    /\ IF TypeOf(config.table) = "NoneType"
       THEN /\ Advance(r)
            /\ UNCHANGED <<locals, collaborators>>
       ELSE \/ /\ table_items' = Append(table_items,
                      [TableName |-> ValueOf(config.table), Item |-> form_data[r]])
               /\ calls' = Append(calls, Call(r, "table.put_item", FALSE))
               /\ Advance(r)
               /\ UNCHANGED <<locals, sqs_queue, ses_outbox, sns_topic, issued>>
            \/ /\ calls' = Append(calls, Call(r, "table.put_item", TRUE))
               /\ Advance(r)
               /\ UNCHANGED <<locals, sqs_queue, table_items, ses_outbox, sns_topic,
                              issued>>
    /\ UNCHANGED <<environ, config, event, payload, form_data, allocated>>

\* Line 190, _store_submission: put_item's answer is dropped, and an
\* exception it raises is not caught before the handler's except clauses.
StoreSubmission(r) ==
    /\ pc[r] = "store_submission"
    /\ IF TypeOf(config.table) = "NoneType"
       THEN /\ Advance(r)
            /\ UNCHANGED <<locals, collaborators>>
       ELSE \/ /\ table_items' = Append(table_items,
                      [TableName |-> ValueOf(config.table), Item |-> form_data[r]])
               /\ calls' = Append(calls, Call(r, "table.put_item", FALSE))
               /\ Advance(r)
               /\ UNCHANGED <<locals, sqs_queue, ses_outbox, sns_topic, issued>>
            \/ \E raised \in ClientErrors("PutItem") :
                  Raises(r, "table.put_item", raised)
    /\ UNCHANGED <<environ, config, event, payload, form_data, allocated>>

\* Fault: without a sender the email is skipped, as the other channels are.
SendEmailSkipsWithoutSender(r, recipient, email, name) ==
    IF ~Truthy(config.source_email)
    THEN /\ Bind(r, name, JNull)
         /\ Advance(r)
         /\ UNCHANGED collaborators
    ELSE \/ /\ ses_outbox' = Append(ses_outbox,
                   [MessageId |-> NextMessageId,
                    params    |-> SendEmailParams(recipient, email.subject, email.body)])
            /\ issued' = issued + 1
            /\ calls' = Append(calls, Call(r, "ses.send_email", FALSE))
            /\ Bind(r, name, Answer(NextMessageId))
            /\ Advance(r)
            /\ UNCHANGED <<sqs_queue, table_items, sns_topic>>
         \/ \E raised \in ClientErrors("SendEmail") :
               Raises(r, "ses.send_email", raised)

\* _send_email (lines 151-167) called with recipient and email; its answer
\* is bound to name.
SendEmail(r, recipient, email, name) ==
    IF ~Truthy(config.source_email)
    THEN /\ Abort(r, [type |-> "RuntimeError",
                      msg  |-> "SOURCE_EMAIL environment variable is not set."])
         /\ locals' = LocalsAtRaise(r)
         /\ UNCHANGED collaborators
    ELSE \/ /\ ses_outbox' = Append(ses_outbox,
                   [MessageId |-> NextMessageId,
                    params    |-> SendEmailParams(recipient, email.subject, email.body)])
            /\ issued' = issued + 1
            /\ calls' = Append(calls, Call(r, "ses.send_email", FALSE))
            /\ Bind(r, name, Answer(NextMessageId))
            /\ Advance(r)
            /\ UNCHANGED <<sqs_queue, table_items, sns_topic>>
         \/ \E raised \in ClientErrors("SendEmail") :
               Raises(r, "ses.send_email", raised)

\* Lines 192-195.
SendCustomerEmail(r) ==
    /\ pc[r] = "send_customer_email"
    /\ SendEmail(r, DictGet(ValueOf(form_data[r]), "email"),
                 build_customer_email(form_data[r]), "customer_email_id")
    /\ UNCHANGED <<environ, config, event, payload, form_data, allocated>>

\* Line 196.
SendOwnerEmail(r) ==
    /\ pc[r] = "send_owner_email"
    /\ SendEmail(r, config.owner_email, build_owner_email(form_data[r]),
                 "owner_email_id")
    /\ UNCHANGED <<environ, config, event, payload, form_data, allocated>>

\* Fault: the business notification is sent whenever a business address is
\* set, the owner's own address included.
SendBusinessEmailToAnyAddress(r) ==
    /\ pc[r] = "send_business_email"
    /\ IF Truthy(config.business_email)
       THEN SendEmail(r, config.business_email, build_owner_email(form_data[r]),
                      "business_email_id")
       ELSE /\ Bind(r, "business_email_id", JNull)
            /\ Advance(r)
            /\ UNCHANGED collaborators
    /\ UNCHANGED <<environ, config, event, payload, form_data, allocated>>

\* Lines 198-200.
SendBusinessEmail(r) ==
    /\ pc[r] = "send_business_email"
    /\ IF Truthy(config.business_email) /\ config.business_email # config.owner_email
       THEN SendEmail(r, config.business_email, build_owner_email(form_data[r]),
                      "business_email_id")
       ELSE /\ Bind(r, "business_email_id", JNull)
            /\ Advance(r)
            /\ UNCHANGED collaborators
    /\ UNCHANGED <<environ, config, event, payload, form_data, allocated>>

\* Fault: publish is called whether or not a topic is configured, and the
\* call without a topic is refused.
PublishToTopicUnguarded(r) ==
    /\ pc[r] = "publish_to_topic"
    /\ IF ~Truthy(config.sns_topic_arn)
       THEN Raises(r, "sns.publish",
                   [type |-> "ParamValidationError",
                    msg  |-> "Parameter validation failed:\nInvalid type for parameter TopicArn, value: None, type: <class 'NoneType'>, valid types: <class 'str'>"])
       ELSE \/ /\ sns_topic' = Append(sns_topic,
                      [MessageId |-> NextMessageId,
                       TopicArn  |-> ValueOf(config.sns_topic_arn),
                       Subject   |-> "TravelEase submission from "
                                     \o Field(form_data[r], "name"),
                       Message   |-> json_dumps(form_data[r])])
               /\ issued' = issued + 1
               /\ calls' = Append(calls, Call(r, "sns.publish", FALSE))
               /\ Bind(r, "sns_response", Answer(NextMessageId))
               /\ Advance(r)
               /\ UNCHANGED <<sqs_queue, table_items, ses_outbox>>
            \/ \E raised \in ClientErrors("Publish") :
                  Raises(r, "sns.publish", raised)
    /\ UNCHANGED <<environ, config, event, payload, form_data, allocated>>

\* Line 202, _publish_to_topic.
PublishToTopic(r) ==
    /\ pc[r] = "publish_to_topic"
    /\ IF ~Truthy(config.sns_topic_arn)
       THEN /\ Bind(r, "sns_response", JNull)
            /\ Advance(r)
            /\ UNCHANGED collaborators
       ELSE \/ /\ sns_topic' = Append(sns_topic,
                      [MessageId |-> NextMessageId,
                       TopicArn  |-> ValueOf(config.sns_topic_arn),
                       Subject   |-> "TravelEase submission from "
                                     \o Field(form_data[r], "name"),
                       Message   |-> json_dumps(form_data[r])])
               /\ issued' = issued + 1
               /\ calls' = Append(calls, Call(r, "sns.publish", FALSE))
               /\ Bind(r, "sns_response", Answer(NextMessageId))
               /\ Advance(r)
               /\ UNCHANGED <<sqs_queue, table_items, ses_outbox>>
            \/ \E raised \in ClientErrors("Publish") :
                  Raises(r, "sns.publish", raised)
    /\ UNCHANGED <<environ, config, event, payload, form_data, allocated>>

\* Lines 204-218.
BuildResponse(r) ==
    /\ pc[r] = "build_response"
    /\ response' = [response EXCEPT ![r] =
           Envelope(200, SuccessBody(form_data[r], locals[r]))]
    /\ pc' = [pc EXCEPT ![r] = "returned"]
    /\ UNCHANGED <<environ, config, event, payload, form_data, locals, exc, collaborators,
                   allocated>>

Step(r) ==
    \/ LoadBody(r)
    \/ ValidatePayload(r)
    \/ SendSqsMessage(r)
    \/ StoreSubmission(r)
    \/ SendCustomerEmail(r)
    \/ SendOwnerEmail(r)
    \/ SendBusinessEmail(r)
    \/ PublishToTopic(r)
    \/ BuildResponse(r)

Next == \E r \in Requests : Step(r)

Spec == Init /\ [][Next]_vars

\* Everything configured, the business address the owner's or another one;
\* and nothing configured but, possibly, the sender.
FairEnvironments ==
    {env \in Environments :
        /\ env.SES_CONFIGURATION_SET = JNull
        /\ \/ /\ env.TABLE_NAME # JNull /\ env.QUEUE_URL # JNull
              /\ env.SNS_TOPIC_ARN # JNull /\ env.OWNER_EMAIL # JNull
              /\ env.SOURCE_EMAIL # JNull
              /\ env.BUSINESS_EMAIL \notin {JNull, JStr("")}
           \/ /\ env.TABLE_NAME = JNull /\ env.QUEUE_URL = JNull
              /\ env.SNS_TOPIC_ARN = JNull /\ env.OWNER_EMAIL = JNull
              /\ env.BUSINESS_EMAIL = JNull}

InitFair == InitFrom({1}, FairEnvironments, Events)

\* Lines 186 and 204-218 compute on finite values and call no collaborator:
\* decoding returns or raises, and the invocation goes on to line 187 or to
\* an except clause; building the response returns it.
Computed(r) ==
    \/ /\ pc[r] = "load_body"
       /\ pc' \in {[pc EXCEPT ![r] = next] : next \in {"validate_payload", "returned"}}
    \/ /\ pc[r] = "build_response"
       /\ pc' = [pc EXCEPT ![r] = "returned"]

\* The statements between them.
Dispatch(r) ==
    \/ ValidatePayload(r)
    \/ SendSqsMessage(r)
    \/ StoreSubmission(r)
    \/ SendCustomerEmail(r)
    \/ SendOwnerEmail(r)
    \/ SendBusinessEmail(r)
    \/ PublishToTopic(r)

\* Every statement of a running invocation completes: the interpreter goes
\* on, and a collaborator's call returns or raises.
FairSpec ==
    /\ InitFair /\ [][Next]_vars
    /\ \A r \in Requests : WF_pc(Computed(r)) /\ WF_vars(Dispatch(r))

(***************************************************************************)
(* Two invocations in one process, their statements interleaved in any     *)
(* order: the collaborators and uuid4 are what they share.                 *)
(***************************************************************************)
\* Queue, store and sender are configured; the owner address falls back on
\* the sender and there is no topic.
PairEnvironments ==
    {[TABLE_NAME            |-> JStr("Submissions"),
      QUEUE_URL             |-> JStr("https://sqs.example/q"),
      SOURCE_EMAIL          |-> JStr("noreply@travelease.example"),
      OWNER_EMAIL           |-> JNull,
      BUSINESS_EMAIL        |-> JNull,
      SNS_TOPIC_ARN         |-> JNull,
      SES_CONFIGURATION_SET |-> JNull]}

\* The sample payload, so that both invocations may carry the same field
\* values, and the sample without its email.
PairEvents ==
    {Event(BodyStr(json_dumps(JDict(PayloadPairs(missing, 0, 1)))), FALSE) :
        missing \in {{}, {"email"}}}

InitPair == InitFrom({1, 2}, PairEnvironments, PairEvents)

SpecPair == InitPair /\ [][Next]_vars

(***************************************************************************)
(* Properties.  The channel operations are named by the statement that     *)
(* performs them, in the order the specification lists them: enqueue,      *)
(* persist, notify customer, notify owner, notify business, broadcast.     *)
(***************************************************************************)
Channels ==
    <<"send_sqs_message", "store_submission", "send_customer_email",
      "send_owner_email", "send_business_email", "publish_to_topic">>

Rank(op) == CHOOSE k \in 1..Len(Channels) : Channels[k] = op

IsChannel(op) == \E k \in 1..Len(Channels) : Channels[k] = op

\* The collaborator operation a channel operation calls.
ApiOf(op) ==
    CASE op = "send_sqs_message" -> "sqs.send_message"
      [] op = "store_submission" -> "table.put_item"
      [] op = "publish_to_topic" -> "sns.publish"
      [] OTHER -> "ses.send_email"

\* The configuration asks for the operation: it is not skipped.
Applicable(op) ==
    CASE op = "send_sqs_message" -> config.queue_url \notin {JNull, JStr("")}
      [] op = "store_submission" -> config.table_name \notin {JNull, JStr("")}
      [] op = "send_business_email" ->
             /\ config.business_email \notin {JNull, JStr("")}
             /\ config.business_email # config.owner_email
      [] op = "publish_to_topic" -> config.sns_topic_arn \notin {JNull, JStr("")}
      [] OTHER -> TRUE

Returned(r) == pc[r] = "returned"

\* r passed validation: its form_data exists.
Accepted(r) == form_data[r] # Unbound

\* The call of r's operation op returned.
Done(r, op) ==
    \E i \in 1..Len(calls) :
        calls[i].req = r /\ calls[i].step = op /\ ~calls[i].raised

Attempted(r, op) == \E i \in 1..Len(calls) : calls[i].req = r /\ calls[i].step = op

SomeCallRaised(r) == \E i \in 1..Len(calls) : calls[i].req = r /\ calls[i].raised

\* The email r's notify operation op sends, and to whom.
EmailOf(r, op) ==
    IF op = "send_customer_email"
    THEN [to |-> DictGet(ValueOf(form_data[r]), "email"),
          email |-> build_customer_email(form_data[r])]
    ELSE [to |-> IF op = "send_owner_email" THEN config.owner_email
                 ELSE config.business_email,
          email |-> build_owner_email(form_data[r])]

IsEmailOf(entry, sent) ==
    /\ entry.params.Destination.ToAddresses = <<sent.to>>
    /\ entry.params.Message.Subject.Data = sent.email.subject
    /\ entry.params.Message.Body.Text.Data = sent.email.body.Text
    /\ entry.params.Message.Body.Html.Data = sent.email.body.Html

\* What r's operation op made its collaborator accept: the MessageIds of the
\* queue's, the outbox's or the topic's entries, the items of the table.
Effects(r, op) ==
    CASE op = "send_sqs_message" ->
             {sqs_queue[i].MessageId : i \in
                 {j \in 1..Len(sqs_queue) :
                     sqs_queue[j].MessageBody = json_dumps(form_data[r])}}
      [] op = "store_submission" ->
             {i \in 1..Len(table_items) : table_items[i].Item = form_data[r]}
      [] op = "publish_to_topic" ->
             {sns_topic[i].MessageId : i \in
                 {j \in 1..Len(sns_topic) :
                     sns_topic[j].Message = json_dumps(form_data[r])}}
      [] OTHER ->
             {ses_outbox[i].MessageId : i \in
                 {j \in 1..Len(ses_outbox) : IsEmailOf(ses_outbox[j], EmailOf(r, op))}}

StatusOf(r) == response[r].statusCode

\* The response body of r, read back as JSON.
BodyOf(r) == json_loads(response[r].body).val

ErrorOnly(body, text) == body = JDict(<< <<"error", JStr(text)>> >>)

\* C1: the calls of one request appear in the order enqueue, persist, notify
\* customer, notify owner, notify business, broadcast; when an operation is
\* called, every operation before it has returned or was skipped; and a 200
\* response exists only once every operation has returned or was skipped.
C1_ChannelOrder ==
    \A r \in Requests :
        /\ \A j \in 1..Len(calls) :
               calls[j].req = r =>
                   /\ IsChannel(calls[j].step)
                   /\ calls[j].api = ApiOf(calls[j].step)
                   /\ \A i \in 1..(j - 1) :
                          calls[i].req = r =>
                              /\ Rank(calls[i].step) < Rank(calls[j].step)
                              /\ ~calls[i].raised
                   /\ \A k \in 1..(Rank(calls[j].step) - 1) :
                          Applicable(Channels[k]) =>
                              \E i \in 1..(j - 1) :
                                  /\ calls[i].req = r
                                  /\ calls[i].step = Channels[k]
                                  /\ ~calls[i].raised
        /\ IsChannel(pc[r]) =>
               \A k \in 1..(Rank(pc[r]) - 1) :
                   Applicable(Channels[k]) => Done(r, Channels[k])
        /\ (pc[r] = "build_response" \/ (Returned(r) /\ StatusOf(r) = 200)) =>
               \A k \in 1..Len(Channels) :
                   Applicable(Channels[k]) => Done(r, Channels[k])

\* C1 witness: a request answered 200 after all six operations were called.
C1_Witness ==
    /\ Returned(1) /\ StatusOf(1) = 200
    /\ \A k \in 1..Len(Channels) : Applicable(Channels[k])
    /\ [i \in 1..Len(calls) |-> calls[i].step] = Channels

\* C2: when the k-th operation of a request raises, the request has ended
\* with status 500, every configured operation before it has returned and
\* what it made its collaborator accept is still there, the failed operation
\* left nothing behind, and no later operation was attempted.
C2_AbortWithoutRollback ==
    \A r \in Requests :
        IsChannel(exc[r].at) =>
            /\ Returned(r) /\ StatusOf(r) = 500
            /\ \A k \in 1..Len(Channels) :
                   IF k < Rank(exc[r].at)
                   THEN Applicable(Channels[k]) =>
                            /\ Done(r, Channels[k])
                            /\ Cardinality(Effects(r, Channels[k])) = 1
                   ELSE /\ Effects(r, Channels[k]) = {}
                        /\ k > Rank(exc[r].at) => ~Attempted(r, Channels[k])

\* C2 witness: broadcast, the last of six configured operations, raised.
C2_Witness ==
    /\ exc[1].at = "publish_to_topic"
    /\ \A k \in 1..Len(Channels) : Applicable(Channels[k])
    /\ Len(sqs_queue) = 1 /\ Len(table_items) = 1 /\ Len(ses_outbox) = 3
    /\ StatusOf(1) = 500

\* C3: when a collaborator call of a request raises, the response has status
\* 500 and its body is the object whose only field is error, holding the
\* text of the exception raised; no submission_id, no channel reference.
C3_ErrorOnlyBody ==
    \A r \in Requests :
        SomeCallRaised(r) =>
            /\ Returned(r) /\ StatusOf(r) = 500
            /\ exc[r].type = "ClientError"
            /\ \E code \in ErrorCodes, operation \in {"SendMessage", "PutItem",
                                                     "SendEmail", "Publish"} :
                   exc[r].msg = "An error occurred (" \o code \o ") when calling the "
                                \o operation \o " operation: " \o code
            /\ ErrorOnly(BodyOf(r), exc[r].msg)
            /\ DictKeys(ValueOf(BodyOf(r))) = <<"error">>

\* C3 witness: the customer notification raised after enqueue and persist
\* had succeeded.
C3_Witness ==
    /\ SomeCallRaised(1)
    /\ exc[1].at = "send_customer_email"
    /\ Done(1, "send_sqs_message") /\ Done(1, "store_submission")
    /\ StatusOf(1) = 500

PutRaised(r) ==
    \E i \in 1..Len(calls) :
        calls[i].req = r /\ calls[i].api = "table.put_item" /\ calls[i].raised

\* The keys of a success body (lines 204-212).
SuccessKeys ==
    <<"message", "submission_id", "customer_ses_message_id", "owner_ses_message_id",
      "business_ses_message_id", "sqs_message_id", "sns_message_id">>

\* C4 as stated: a failure of the store's put is not fatal, the request whose
\* put raised is still answered 200.
C4_PutFailureNotFatal ==
    \A r \in Requests : (PutRaised(r) /\ Returned(r)) => StatusOf(r) = 200

\* C4 amended: the store's outcome is not surfaced, a success body has no
\* entry for it; but a put that raises is fatal: the request ends at once
\* with status 500 and the error's text, and no notification or broadcast
\* is attempted.
C4_PutFailureFatal ==
    \A r \in Requests :
        /\ PutRaised(r) =>
               /\ Returned(r) /\ StatusOf(r) = 500
               /\ exc[r].at = "store_submission"
               /\ ErrorOnly(BodyOf(r), exc[r].msg)
               /\ \A k \in (Rank("store_submission") + 1)..Len(Channels) :
                      ~Attempted(r, Channels[k])
        /\ (Returned(r) /\ StatusOf(r) = 200) =>
               /\ DictKeys(ValueOf(BodyOf(r))) = SuccessKeys
               /\ Applicable("store_submission") =>
                      Cardinality(Effects(r, "store_submission")) = 1

\* C4 witness: every channel is configured, enqueue succeeded, the put
\* raised and the answer is 500.
C4_Witness ==
    /\ PutRaised(1) /\ Returned(1) /\ StatusOf(1) = 500
    /\ \A k \in 1..Len(Channels) : Applicable(Channels[k])
    /\ Done(1, "send_sqs_message")

\* (a) the body is absent or empty.
BodyMissing(e) ==
    \/ TypeOf(e.body) \in {"absent", "NoneType"}
    \/ TypeOf(e.body) = "str" /\ ValueOf(e.body) = ""
    \/ TypeOf(e.body) = "bytes" /\ ValueOf(e.body) = <<>>

\* The text the decoding steps of lines 32-37 hand to json.loads.
DecodedText(e) ==
    LET decoded(first) == IF first.st # "ok" THEN first ELSE TransportDecode(e, first.val)
    IN  decoded(BodyText(e))

\* (b) the body is flagged as base64 and the base64 or UTF-8 decoding fails.
TransportUndecodable(e) ==
    e.isBase64Encoded /\ TypeOf(e.body) = "str" /\ DecodedText(e).st = "raise"

\* (c) the decoded text is not well-formed JSON.
NotJson(e) ==
    LET parsed(text) ==
            /\ text.st = "ok"
            /\ TypeOf(text.val) = "str"
            /\ json_loads(ValueOf(text.val)).st = "raise"
    IN  parsed(DecodedText(e))

\* C5 as stated: a request whose body is absent or empty, or flagged and
\* undecodable, or not JSON, is answered 400 with a body holding only error.
C5_MalformedIs400 ==
    \A r \in Requests :
        (Returned(r) /\ (\/ BodyMissing(event[r])
                         \/ TransportUndecodable(event[r])
                         \/ NotJson(event[r]))) =>
            /\ StatusOf(r) = 400
            /\ DictKeys(ValueOf(BodyOf(r))) = <<"error">>

DeclaredFields == <<"name", "email", "phone", "inquiry_type", "message">>

FalsyValues == {JStr(""), JInt(0), JNull, JBool(FALSE), JList(<<>>), JDict(<<>>)}

\* The required fields that a payload object leaves out or holds falsy.
Missing(p) ==
    {DeclaredFields[k] : k \in
        {j \in 1..Len(DeclaredFields) :
            \/ ~HasKey(ValueOf(p), DeclaredFields[j])
            \/ DictGet(ValueOf(p), DeclaredFields[j]) \in FalsyValues}}

\* The fields of M by name, in declaration order, separated by ", ".
Listing(M) ==
    LET member(field) == field \in M
    IN  JoinComma(SelectSeq(DeclaredFields, member), 1)

\* C6: a payload object with a non-empty set M of required fields absent or
\* falsy is answered 400, and the error message lists exactly the fields of
\* M in the order name, email, phone, inquiry_type, message.
C6_MissingFieldsListed ==
    \A r \in Requests :
        (Returned(r) /\ TypeOf(payload[r]) = "dict" /\ Missing(payload[r]) # {}) =>
            /\ StatusOf(r) = 400
            /\ ErrorOnly(BodyOf(r),
                         "Missing required fields: " \o Listing(Missing(payload[r])))

\* C6 witness: name, phone and message are missing, email and inquiry_type
\* are not, and the answer is 400.
C6_Witness ==
    /\ Returned(1) /\ TypeOf(payload[1]) = "dict"
    /\ Missing(payload[1]) = {"name", "phone", "message"}
    /\ StatusOf(1) = 400

\* A payload object with the five required fields present and truthy.
Valid(p) == TypeOf(p) = "dict" /\ Missing(p) = {}

\* The channel operations whose reference the success body reports.
Referenced ==
    {"send_sqs_message", "send_customer_email", "send_owner_email",
     "send_business_email", "publish_to_topic"}

ReferenceKey(op) ==
    CASE op = "send_sqs_message" -> "sqs_message_id"
      [] op = "send_customer_email" -> "customer_ses_message_id"
      [] op = "send_owner_email" -> "owner_ses_message_id"
      [] op = "send_business_email" -> "business_ses_message_id"
      [] op = "publish_to_topic" -> "sns_message_id"

SenderConfigured == config.source_email \notin {JNull, JStr("")}

\* The body has a non-empty submission_id and an entry for every channel,
\* null for a skipped channel and a text otherwise.
EntryForEveryChannel(body) ==
    /\ TypeOf(DictGet(ValueOf(body), "submission_id")) = "str"
    /\ ValueOf(DictGet(ValueOf(body), "submission_id")) # ""
    /\ \A op \in Referenced :
           /\ HasKey(ValueOf(body), ReferenceKey(op))
           /\ IF Applicable(op)
              THEN TypeOf(DictGet(ValueOf(body), ReferenceKey(op))) = "str"
              ELSE DictGet(ValueOf(body), ReferenceKey(op)) = JNull

\* C7 as stated: every valid payload is answered 200 with a non-empty
\* submission_id and an entry for every channel, null if skipped.
C7_ValidAlways200 ==
    \A r \in Requests :
        (Returned(r) /\ Valid(payload[r])) =>
            /\ StatusOf(r) = 200
            /\ EntryForEveryChannel(BodyOf(r))

\* C7 amended: a valid payload is answered 200, with a non-empty
\* submission_id and an entry for every channel (null if skipped), when a
\* sender identity is configured and no collaborator call raises; otherwise
\* it is answered 500.
C7_ValidOutcome ==
    \A r \in Requests :
        (Returned(r) /\ Valid(payload[r])) =>
            IF SenderConfigured /\ ~SomeCallRaised(r)
            THEN StatusOf(r) = 200 /\ EntryForEveryChannel(BodyOf(r))
            ELSE StatusOf(r) = 500

\* C7 witness: a valid payload answered 200 with the queue and the business
\* notification skipped and the topic configured.
C7_Witness ==
    /\ Returned(1) /\ Valid(payload[1]) /\ StatusOf(1) = 200
    /\ ~Applicable("send_sqs_message") /\ ~Applicable("send_business_email")
    /\ Applicable("publish_to_topic")

\* C8: a 200 response exists only when every configured operation of the
\* request has returned and none has raised; its body has exactly the keys
\* message, submission_id and the five references; a reference is null when
\* the channel was skipped and otherwise the MessageId under which the
\* collaborator holds this request's message.
C8_NoPartialSuccess ==
    \A r \in Requests :
        (Returned(r) /\ StatusOf(r) = 200) =>
            /\ Accepted(r) /\ ~SomeCallRaised(r)
            /\ \A k \in 1..Len(Channels) :
                   Applicable(Channels[k]) => Done(r, Channels[k])
            /\ \A body \in {BodyOf(r)} :
                   /\ DictKeys(ValueOf(body)) = SuccessKeys
                   /\ DictGet(ValueOf(body), "message") = JStr("Form submitted successfully")
                   /\ DictGet(ValueOf(body), "submission_id")
                          = DictGet(ValueOf(form_data[r]), "submission_id")
                   /\ \A op \in Referenced :
                          IF Applicable(op)
                          THEN {JStr(id) : id \in Effects(r, op)}
                                   = {DictGet(ValueOf(body), ReferenceKey(op))}
                          ELSE /\ DictGet(ValueOf(body), ReferenceKey(op)) = JNull
                               /\ ~Attempted(r, op)

\* C8 witness: a 200 response carrying five references, none of them null.
C8_Witness ==
    /\ Returned(1) /\ StatusOf(1) = 200
    /\ \A op \in Referenced : Applicable(op)
    /\ issued = Cardinality(Referenced)

\* C9: without a sender identity no email is ever sent or attempted, and a
\* request that passed validation never gets beyond the customer
\* notification: it ends there with status 500 and the configuration
\* error's text, unless enqueue or persist had already failed it with 500.
C9_NoSenderIsFatal ==
    ~SenderConfigured =>
        /\ ses_outbox = <<>>
        /\ \A i \in 1..Len(calls) : calls[i].api # "ses.send_email"
        /\ \A r \in Requests :
               Accepted(r) =>
                   \/ pc[r] \in {"send_sqs_message", "store_submission",
                                 "send_customer_email"}
                   \/ /\ Returned(r) /\ StatusOf(r) = 500
                      /\ \/ SomeCallRaised(r)
                         \/ /\ exc[r].at = "send_customer_email"
                            /\ exc[r].type = "RuntimeError"
                            /\ ErrorOnly(BodyOf(r),
                                   "SOURCE_EMAIL environment variable is not set.")

\* C9 witness: no sender identity; enqueue and persist returned; the customer
\* notification ended the request with the configuration error.
C9_Witness ==
    /\ ~SenderConfigured /\ Accepted(1) /\ Returned(1)
    /\ exc[1].type = "RuntimeError" /\ StatusOf(1) = 500
    /\ Done(1, "send_sqs_message") /\ Done(1, "store_submission")

\* The queue endpoint, the store's location or the topic, by its operation.
Skippable == {"send_sqs_message", "store_submission", "publish_to_topic"}

\* C10: when the queue endpoint, the store's location or the topic is not
\* configured, its collaborator is never called and holds nothing; a request
\* still reaches 200 only through all the configured operations, and the
\* skipped channel's reference in that body is null.
C10_ChannelSkip ==
    \A op \in Skippable :
        ~Applicable(op) =>
            /\ \A i \in 1..Len(calls) : calls[i].api # ApiOf(op)
            /\ \A r \in Requests :
                   /\ Accepted(r) => Effects(r, op) = {}
                   /\ (Returned(r) /\ StatusOf(r) = 200) =>
                          /\ \A k \in 1..Len(Channels) :
                                 Applicable(Channels[k]) => Done(r, Channels[k])
                          /\ op \in Referenced =>
                                 DictGet(ValueOf(BodyOf(r)), ReferenceKey(op)) = JNull
            /\ op = "send_sqs_message" => sqs_queue = <<>>
            /\ op = "store_submission" => table_items = <<>>
            /\ op = "publish_to_topic" => sns_topic = <<>>

\* C10 witness: queue, store and topic are all unconfigured, the three
\* notifications were sent and the answer is 200.
C10_Witness ==
    /\ \A op \in Skippable : ~Applicable(op)
    /\ Returned(1) /\ StatusOf(1) = 200
    /\ Len(calls) = 3 /\ Len(ses_outbox) = 3

\* The notify operations of r that called the email sender, in call order.
NotifyCalls(r) ==
    LET mine(call) == call.req = r /\ call.api = "ses.send_email"
        kept == SelectSeq(calls, mine)
    IN  [i \in 1..Len(kept) |-> kept[i].step]

\* The outbox entries accepted under the reference the body reports at key.
OutboxEntries(body, key) ==
    {ses_outbox[i] : i \in
        {j \in 1..Len(ses_outbox) :
            JStr(ses_outbox[j].MessageId) = DictGet(ValueOf(body), key)}}

\* C11: in a request answered 200, when the business address is empty or
\* equals the owner address exactly two notify calls were made, customer
\* then owner, and the business reference is null; when it is set and
\* differs, exactly three were made and the third went to the business
\* address with the subject and the two bodies of the owner notification.
C11_BusinessDedup ==
    \A r \in Requests :
        (Returned(r) /\ StatusOf(r) = 200) =>
            \A body \in {BodyOf(r)} :
                IF \/ config.business_email \in {JNull, JStr("")}
                   \/ config.business_email = config.owner_email
                THEN /\ NotifyCalls(r) = <<"send_customer_email", "send_owner_email">>
                     /\ DictGet(ValueOf(body), "business_ses_message_id") = JNull
                ELSE /\ NotifyCalls(r) = <<"send_customer_email", "send_owner_email",
                                           "send_business_email">>
                     /\ \E owner \in OutboxEntries(body, "owner_ses_message_id") :
                            /\ OutboxEntries(body, "business_ses_message_id") =
                                   {[owner EXCEPT !.MessageId =
                                        ValueOf(DictGet(ValueOf(body),
                                                        "business_ses_message_id")),
                                     !.params.Destination.ToAddresses =
                                        <<config.business_email>>]}
                            /\ owner.params.Destination.ToAddresses = <<config.owner_email>>

\* C11 witness: the business address was set to the owner's address, the
\* request was answered 200 and the outbox holds two emails.
C11_Witness ==
    /\ Returned(1) /\ StatusOf(1) = 200
    /\ environ.BUSINESS_EMAIL # JNull
    /\ config.business_email = config.owner_email
    /\ Len(ses_outbox) = 2

\* The entries of a collaborator's log accepted under the MessageId of answer.
HeldUnder(log, answer) ==
    {log[i] : i \in
        {j \in 1..Len(log) :
            JStr(log[j].MessageId) = DictGet(ValueOf(answer), "MessageId")}}

\* The local name that keeps the answer of a referenced operation.
LocalOf(op) ==
    CASE op = "send_sqs_message" -> "sqs_response"
      [] op = "send_customer_email" -> "customer_email_id"
      [] op = "send_owner_email" -> "owner_email_id"
      [] op = "send_business_email" -> "business_email_id"
      [] op = "publish_to_topic" -> "sns_response"

SubmissionKeys ==
    <<"submission_id", "name", "email", "phone", "inquiry_type", "message", "created_at">>

\* The submission of r has the seven keys, the five field values of the
\* payload, an allocated id and a timestamp.
WellBuilt(r) ==
    /\ DictKeys(ValueOf(form_data[r])) = SubmissionKeys
    /\ \A k \in 1..Len(DeclaredFields) :
           DictGet(ValueOf(form_data[r]), DeclaredFields[k])
               = DictGet(ValueOf(payload[r]), DeclaredFields[k])
    /\ DictGet(ValueOf(form_data[r]), "submission_id") \in {JStr(u) : u \in allocated}
    /\ DictGet(ValueOf(form_data[r]), "created_at") \in {JStr(t) : t \in Timestamps}

\* What each channel of r received is the submission r holds now.
SameEverywhere(r) ==
    /\ Done(r, "send_sqs_message") =>
           \E m \in HeldUnder(sqs_queue, locals[r].sqs_response) :
               json_loads(m.MessageBody) = Ok(form_data[r])
    /\ Done(r, "store_submission") =>
           \E i \in 1..Len(table_items) : table_items[i].Item = form_data[r]
    /\ \A op \in {"send_customer_email", "send_owner_email", "send_business_email"} :
           Done(r, op) =>
               \E entry \in HeldUnder(ses_outbox, locals[r][LocalOf(op)]) :
                   IsEmailOf(entry, EmailOf(r, op))
    /\ Done(r, "publish_to_topic") =>
           \E m \in HeldUnder(sns_topic, locals[r].sns_response) :
               json_loads(m.Message) = Ok(form_data[r])
    /\ (Returned(r) /\ StatusOf(r) = 200) =>
           DictGet(ValueOf(BodyOf(r)), "submission_id")
               = DictGet(ValueOf(form_data[r]), "submission_id")

\* C12: the submission of an accepted request is built once, from the
\* payload's five field values, a new id and a timestamp, and never changes;
\* the queue's message, the store's record, the topic's message, the emails
\* and the 200 response carry that submission, and every record the store
\* holds is the submission of some request.
C12_OneSubmission ==
    /\ [](\A r \in Requests : Accepted(r) => WellBuilt(r) /\ SameEverywhere(r))
    /\ [](\A i \in 1..Len(table_items) :
              \E r \in Requests : table_items[i].Item = form_data[r])
    /\ [][\A r \in Requests :
             /\ Accepted(r) => form_data'[r] = form_data[r]
             /\ form_data'[r] # form_data[r] => pc[r] = "validate_payload"]_vars

\* C12 witness: a payload whose values are not all text went through the six
\* channels and was answered 200.
C12_Witness ==
    /\ Returned(1) /\ StatusOf(1) = 200
    /\ DictGet(ValueOf(payload[1]), "phone") = JInt(123)
    /\ Len(sqs_queue) = 1 /\ Len(table_items) = 1 /\ Len(ses_outbox) = 3
    /\ Len(sns_topic) = 1

\* The positions in the call log of r's calls of operation op.
CallsOf(r, op) == {i \in 1..Len(calls) : calls[i].req = r /\ calls[i].step = op}

\* C13: in every state, whatever the request's outcome, each of the six
\* operations of a request has called its collaborator at most once, so the
\* queue's send, the store's put and the topic's publish at most once and
\* the email sender at most once for each role; a call that raised is the
\* request's last call, and the collaborator holds at most one entry for it.
C13_AtMostOnce ==
    \A r \in Requests :
        /\ \A k \in 1..Len(Channels) :
               /\ Cardinality(CallsOf(r, Channels[k])) <= 1
               /\ Accepted(r) => Cardinality(Effects(r, Channels[k])) <= 1
        /\ \A api \in {"sqs.send_message", "table.put_item", "sns.publish"} :
               Cardinality({i \in 1..Len(calls) :
                               calls[i].req = r /\ calls[i].api = api}) <= 1
        /\ \A i \in 1..Len(calls) :
               (calls[i].req = r /\ calls[i].raised) =>
                   /\ Returned(r)
                   /\ \A j \in (i + 1)..Len(calls) : calls[j].req # r

\* C13 witness: the owner notification raised after three calls had
\* returned; the request ended with four calls in all.
C13_Witness ==
    /\ Returned(1) /\ exc[1].at = "send_owner_email"
    /\ Len(calls) = 4 /\ calls[4].raised
    /\ Cardinality(CallsOf(1, "send_owner_email")) = 1

\* The key of a record in the store: the table is keyed by submission_id.
KeyOf(item) == DictGet(ValueOf(item), "submission_id")

\* The records the store holds: a put replaces the record of the same key.
StoredRecords ==
    {table_items[i].Item : i \in
        {j \in 1..Len(table_items) :
            \A k \in (j + 1)..Len(table_items) :
                KeyOf(table_items[k].Item) # KeyOf(table_items[j].Item)}}

\* The references a success body reports, null left out.
ReferencesIn(body) ==
    {DictGet(ValueOf(body), ReferenceKey(op)) : op \in Referenced} \ {JNull}

\* Every entry a log held before the step is still there, unchanged.
Kept(log, after) == Len(after) >= Len(log) /\ SubSeq(after, 1, Len(log)) = log

\* C14: two accepted requests, however their statements interleave and even
\* with the same field values, hold distinct submission_ids; the store then
\* holds a record for each put that returned, under distinct keys; the
\* message a request has just enqueued carries its own submission; two 200
\* responses each carry their own submission_id and share no reference;
\* and a step leaves the submission, the answers and the response of a
\* request that did not take it, and every entry the collaborators already
\* held, as they were.
C14_DistinctIds ==
    /\ [](\A r \in Requests : \A q \in Requests \ {r} :
              (Accepted(r) /\ Accepted(q)) =>
                  /\ KeyOf(form_data[r]) # KeyOf(form_data[q])
                  /\ Done(r, "store_submission") => form_data[r] \in StoredRecords
                  /\ pc[r] = "store_submission" =>
                         \E m \in HeldUnder(sqs_queue, locals[r].sqs_response) :
                             m.MessageBody = json_dumps(form_data[r])
                  /\ (/\ Returned(r) /\ StatusOf(r) = 200
                      /\ Returned(q) /\ StatusOf(q) = 200) =>
                         \A mine \in {BodyOf(r)}, other \in {BodyOf(q)} :
                             /\ DictGet(ValueOf(mine), "submission_id")
                                    = KeyOf(form_data[r])
                             /\ DictGet(ValueOf(mine), "submission_id")
                                    # DictGet(ValueOf(other), "submission_id")
                             /\ ReferencesIn(mine) \cap ReferencesIn(other) = {})
    /\ [](Cardinality(StoredRecords) = Len(table_items))
    /\ [][/\ \A r \in Requests :
               pc'[r] = pc[r] =>
                   /\ form_data'[r] = form_data[r]
                   /\ locals'[r] = locals[r]
                   /\ response'[r] = response[r]
           /\ Kept(sqs_queue, sqs_queue') /\ Kept(table_items, table_items')
           /\ Kept(ses_outbox, ses_outbox') /\ Kept(sns_topic, sns_topic')]_vars

\* C14 witness: both requests carried the same field values and were
\* answered 200, their statements interleaved; the store holds two records.
C14_Witness ==
    /\ payload[1] = payload[2]
    /\ Returned(1) /\ StatusOf(1) = 200
    /\ Returned(2) /\ StatusOf(2) = 200
    /\ Cardinality(StoredRecords) = 2
    /\ [i \in 1..4 |-> calls[i].req] = <<1, 2, 2, 1>>

\* The response is an envelope with one of the three status codes, the JSON
\* content type and a body that is the text of a JSON object.
IsEnvelope(resp) ==
    /\ DOMAIN resp = {"statusCode", "body", "headers"}
    /\ resp.statusCode \in {200, 400, 500}
    /\ resp.headers = ("Content-Type" :> "application/json")
    /\ \E parsed \in {json_loads(resp.body)} :
           parsed.st = "ok" /\ TypeOf(parsed.val) = "dict"

\* C15: when every collaborator call returns or raises, every invocation
\* that was started returns; it emits its response at that step and never
\* again; the response is an envelope with status 200, 400 or 500, content
\* type application/json and a JSON object as body; and an exception raised
\* while decoding, validating, reading the configuration or calling a
\* collaborator always ends in a 400 or 500 envelope, never outside.
C15_OneEnvelope ==
    /\ \A r \in Requests : (pc[r] # "idle") ~> Returned(r)
    /\ [](\A r \in Requests :
              /\ pc[r] \in {"idle", "returned"} \cup {Statements[k] : k \in 1..Len(Statements)}
              /\ Returned(r) => IsEnvelope(response[r])
              /\ exc[r].type # "" =>
                     /\ Returned(r)
                     /\ StatusOf(r) = IF exc[r].type = "BadRequestError" THEN 400 ELSE 500
              /\ (Returned(r) /\ StatusOf(r) # 200) => exc[r].type # "")
    /\ [][\A r \in Requests :
             /\ Returned(r) => (pc'[r] = pc[r] /\ response'[r] = response[r])
             /\ (pc[r] # "returned" /\ pc'[r] # "returned") =>
                    response'[r] = response[r]]_vars

\* C15 witness: a request whose body was not base64 though flagged so has
\* returned the envelope of an error that is neither a bad request nor a
\* collaborator's.
C15_Witness ==
    /\ Returned(1) /\ IsEnvelope(response[1])
    /\ exc[1].at = "load_body"
    /\ exc[1].type \notin {"BadRequestError", "ClientError"}
    /\ StatusOf(1) = 500

\* C16: when OWNER_EMAIL is not set, the owner address is the sender identity
\* and every owner notification that was sent went from and to that address;
\* when BUSINESS_EMAIL is not set either, the business address is that same
\* address, no business notification is ever attempted and a 200 response
\* reports null for it.
C16_OwnerFallback ==
    environ.OWNER_EMAIL = JNull =>
        /\ config.owner_email = environ.SOURCE_EMAIL
        /\ \A r \in Requests :
               Done(r, "send_owner_email") =>
                   \E entry \in HeldUnder(ses_outbox, locals[r].owner_email_id) :
                       /\ entry.params.Destination.ToAddresses = <<environ.SOURCE_EMAIL>>
                       /\ entry.params.Source = ValueOf(environ.SOURCE_EMAIL)
                       /\ entry.params.Message.Subject.Data
                              = "New TravelEase submission from " \o Field(form_data[r], "name")
        /\ environ.BUSINESS_EMAIL = JNull =>
               /\ config.business_email = environ.SOURCE_EMAIL
               /\ \A r \in Requests :
                      /\ ~Attempted(r, "send_business_email")
                      /\ pc[r] \in {"publish_to_topic", "build_response"} =>
                             locals[r].business_email_id = JNull
                      /\ (Returned(r) /\ StatusOf(r) = 200) =>
                             /\ DictGet(ValueOf(BodyOf(r)), "business_ses_message_id") = JNull
                             /\ NotifyCalls(r) = <<"send_customer_email", "send_owner_email">>

\* C16 witness: neither OWNER_EMAIL nor BUSINESS_EMAIL is set; the request
\* was answered 200 and the second of its two emails went to the sender.
C16_Witness ==
    /\ environ.OWNER_EMAIL = JNull /\ environ.BUSINESS_EMAIL = JNull
    /\ Returned(1) /\ StatusOf(1) = 200
    /\ Len(ses_outbox) = 2
    /\ ses_outbox[2].params.Destination.ToAddresses = <<JStr("noreply@travelease.example")>>

\* C17: a request answered 400 was rejected by the decoder or the validator
\* with a BadRequestError; it has no submission, made no call to the queue,
\* the store, the email sender or the topic, and holds no answer; no id was
\* drawn for it: the ids drawn are those of the accepted requests; and when
\* no other request ran, the collaborators hold nothing at all.
C17_RejectedNoEffect ==
    \A r \in Requests :
        (Returned(r) /\ StatusOf(r) = 400) =>
            /\ exc[r].type = "BadRequestError"
            /\ exc[r].at \in {"load_body", "validate_payload"}
            /\ ~Accepted(r)
            /\ locals[r] = NoLocals
            /\ \A i \in 1..Len(calls) : calls[i].req # r
            /\ allocated = {ValueOf(KeyOf(form_data[q])) : q \in {p \in Requests : Accepted(p)}}
            /\ (\A q \in Requests \ {r} : pc[q] = "idle") =>
                   /\ sqs_queue = <<>> /\ table_items = <<>>
                   /\ ses_outbox = <<>> /\ sns_topic = <<>>
                   /\ calls = <<>> /\ issued = 0 /\ allocated = {}

\* C17 witness: every channel is configured and the payload lacks its
\* message; the validator rejected the request with 400.
C17_Witness ==
    /\ Returned(1) /\ StatusOf(1) = 400
    /\ exc[1].at = "validate_payload"
    /\ Missing(payload[1]) = {"message"}
    /\ \A k \in 1..Len(Channels) : Applicable(Channels[k])
    /\ SenderConfigured

\* C18: with no sender identity and with the queue and the store configured,
\* the configuration error is raised at the customer notification and
\* nowhere else; the request it ends is answered 500 with the error's text
\* while the queue holds its message and the store its record, both left
\* in place; and a valid request whose enqueue and persist returned always
\* ends that way.
C18_LateDetection ==
    (~SenderConfigured /\ Applicable("send_sqs_message") /\ Applicable("store_submission")) =>
        \A r \in Requests :
            /\ exc[r].type = "RuntimeError" =>
                   /\ exc[r].at = "send_customer_email"
                   /\ Returned(r) /\ StatusOf(r) = 500
                   /\ ErrorOnly(BodyOf(r), "SOURCE_EMAIL environment variable is not set.")
                   /\ \A i \in 1..Len(calls) :
                          calls[i].req = r =>
                              /\ calls[i].step \in {"send_sqs_message", "store_submission"}
                              /\ ~calls[i].raised
                   /\ Cardinality(CallsOf(r, "send_sqs_message")) = 1
                   /\ Cardinality(CallsOf(r, "store_submission")) = 1
                   /\ Cardinality(Effects(r, "send_sqs_message")) = 1
                   /\ Cardinality(Effects(r, "store_submission")) = 1
            /\ (Returned(r) /\ Valid(payload[r]) /\ ~SomeCallRaised(r)) =>
                   exc[r].type = "RuntimeError"
            /\ (Accepted(r) /\ pc[r] \in {"send_sqs_message", "store_submission",
                                            "send_customer_email"}) =>
                   exc[r] = NoException

\* C18 witness: no sender identity; the request made two calls, to the queue
\* and to the store, both hold their entry, and it was answered 500.
C18_Witness ==
    /\ ~SenderConfigured
    /\ Returned(1) /\ StatusOf(1) = 500 /\ exc[1].type = "RuntimeError"
    /\ [i \in 1..Len(calls) |-> calls[i].api] = <<"sqs.send_message", "table.put_item">>
    /\ Len(sqs_queue) = 1 /\ Len(table_items) = 1 /\ ses_outbox = <<>>

====
